---- MODULE Spec2Model ----
(***************************************************************************)
(* Indexer aggregation and caching layer of the omnipair dApp:             *)
(* getIndexerData (response cache + in-flight coalescing) and the Query    *)
(* Facade functions built on it.                                           *)
(***************************************************************************)
EXTENDS Integers, Sequences, FiniteSets, TLC

VARIABLES
  now,               \* Date.now()
  responseCache,     \* Map<string, {timestamp, data}>
  inflightRequests,  \* Map<string, Promise>: key -> index into requests
  requests,          \* the requestPromise IIFEs created so far (one fetch each)
  calls,             \* the getIndexerData invocations made so far
  last,              \* arguments of the getIndexerData invocation just made
  fn,                \* the Query Facade function that was invoked
  fargs,             \* its arguments: options.signal given, walletAddress given
  aborted,           \* options.signal.aborted
  fpc,               \* where the facade function stands
  subs,              \* promises of its first batch of getIndexerData calls
  liquidityPools,    \* fetchWalletJournal: [...poolSet].slice(0, 8)
  liquidity,         \* fetchWalletJournal: promises of liquidityRequests
  errors,            \* fetchWalletJournal: errors
  fresult,           \* the promise the facade function returned
  pin,               \* a pure function of the core and the arguments given to it
  pout,              \* what it returned
  panelMounted,      \* a UI panel: it is mounted
  panelPool,         \* a UI panel: the poolAddress prop its effect depends on
  refreshTick,       \* a UI panel: its refreshTick state
  lastLoad,          \* a UI panel: what triggered its last load, and its force option
  panelState,        \* a UI panel: its loading, error and stats state
  loads              \* a UI panel: the load() calls of its effect runs so far

cacheVars == <<now, responseCache, inflightRequests, requests, calls, last>>

facadeVars == <<fn, fargs, aborted, fpc, subs, liquidityPools, liquidity, errors, fresult>>

pureVars == <<pin, pout>>

panelVars == <<panelMounted, panelPool, refreshTick, lastLoad, panelState, loads>>

vars == <<cacheVars, facadeVars, pureVars, panelVars>>

\* ------------------------------------------------------------------ bounds
MaxEvents == 2
MaxSample == 4
MaxPools == 3
MaxRefresh == 2
MaxCalls == 2
MaxTicks == 1
MaxSharedCalls == 3
MaxSwaps == 3
MaxLoads == 3
TickMs == 30000

\* --------------------------------------------------------------- constants
DEFAULT_CACHE_TTL_MS == 60000

Undefined == "<undefined>"
NoEntry == [timestamp |-> -1, data |-> Undefined]
NoRequest == 0

\* ------------------------------------------------ canonical key (pure part)
\* Parameter names in ascending locale order; a.localeCompare(b) compares ranks.
ParamNames == <<"limit", "offset", "poolAddress">>

Rank(name) == CHOOSE i \in 1..Len(ParamNames) : ParamNames[i] = name

localeCompare(a, b) == Rank(a) - Rank(b)

\* Object.entries(params).filter(([, value]) => value !== undefined)
RECURSIVE DefinedEntries(_)
DefinedEntries(params) ==
  IF params = <<>> THEN <<>>
  ELSE IF Head(params)[2] # Undefined
       THEN <<Head(params)>> \o DefinedEntries(Tail(params))
       ELSE DefinedEntries(Tail(params))

\* Insert entry e into the sorted list s, after every element that does not
\* compare greater than it (stable).
RECURSIVE InsertByName(_, _)
InsertByName(e, s) ==
  IF s = <<>> THEN <<e>>
  ELSE IF localeCompare(Head(s)[1], e[1]) <= 0
       THEN <<Head(s)>> \o InsertByName(e, Tail(s))
       ELSE <<e>> \o s

\* entries.sort(([a], [b]) => a.localeCompare(b))
SortEntriesUnsorted(entries) == entries

RECURSIVE SortEntries(_)
SortEntries(entries) ==
  IF entries = <<>> THEN <<>>
  ELSE InsertByName(entries[Len(entries)], SortEntries(SubSeq(entries, 1, Len(entries) - 1)))

\* toQueryKey: drop the undefined values, sort by name, join as key=value&...
\* The joined string is represented by the list of its key=value parts.
toQueryKey(params) ==
  LET entries == DefinedEntries(params)
  IN SortEntries(entries)

startsWithSlash(path) == path \in {"/pools"}

\* buildUrl: the URL is represented by its path and its query string.
buildUrl(path, params) ==
  LET safePath == IF startsWithSlash(path) THEN path ELSE "/" \o path
  IN [path |-> safePath, query |-> toQueryKey(params)]

\* ------------------------------------------------------------ input domains
Paths == {"/pools"}

ParamChoices ==
  { << <<"limit", "50">>, <<"offset", "0">> >>,
    << <<"offset", "0">>, <<"poolAddress", Undefined>>, <<"limit", "50">> >>,
    << <<"limit", "100">> >> }

EnvelopeParams == { << <<"limit", "50">>, <<"offset", "0">> >> }

Keys == { buildUrl(p, q) : p \in Paths, q \in ParamChoices }

Payloads == {"d1", "d2"}

\* FetchOptions {signal?, force?, ttlMs?}: signal is TRUE when an AbortSignal is
\* supplied, ttlMs is <<>> when absent and <<n>> when given.
OptionChoices ==
  [signal : BOOLEAN, force : BOOLEAN, ttlMs : {<<>>, <<0>>, <<TickMs>>}]

EnvelopeOptions == [signal : BOOLEAN, force : BOOLEAN, ttlMs : {<<>>}]

\* IndexerEnvelope {success?, data?, error?} together with response.ok/status.
\* Absent fields are Undefined.
CoreResponses ==
  { [ok |-> TRUE,  status |-> "200", success |-> "true",    error |-> Undefined, data |-> "d1"],
    [ok |-> TRUE,  status |-> "200", success |-> Undefined, error |-> Undefined, data |-> "d2"],
    [ok |-> FALSE, status |-> "500", success |-> "false",   error |-> "boom",    data |-> "d1"] }

Responses ==
  { [ok |-> TRUE,  status |-> "200", success |-> "true",    error |-> Undefined, data |-> "d1"],
    [ok |-> TRUE,  status |-> "200", success |-> Undefined, error |-> Undefined, data |-> "d2"],
    [ok |-> FALSE, status |-> "500", success |-> "false",   error |-> "boom",    data |-> "d1"],
    [ok |-> TRUE,  status |-> "200", success |-> "false",   error |-> "boom",    data |-> "d1"],
    [ok |-> TRUE,  status |-> "200", success |-> "false",   error |-> "",        data |-> Undefined],
    [ok |-> TRUE,  status |-> "200", success |-> "true",    error |-> Undefined, data |-> Undefined],
    [ok |-> TRUE,  status |-> "200", success |-> "true",    error |-> "boom",    data |-> "d1"] }

NoResponse == [ok |-> FALSE, status |-> "", success |-> Undefined, error |-> Undefined, data |-> Undefined]

\* ------------------------------------------------- outcome of one request
\* A settled promise: fulfilled with a value or rejected with an error.
Fulfilled(value) == [status |-> "fulfilled", value |-> value, name |-> "", message |-> ""]
Rejected(name, message) == [status |-> "rejected", value |-> Undefined, name |-> name, message |-> message]
Pending == [status |-> "pending", value |-> Undefined, name |-> "", message |-> ""]

\* fetch() rejects with a DOMException named AbortError when the signal fires
AbortError == Rejected("AbortError", "The operation was aborted")

HttpError(status) == Rejected("Error", "Indexer request failed (" \o status \o ")")
ServerError(message) == Rejected("Error", message)
RequestFailedMessage == "Indexer request failed: url"
MissingDataError == Rejected("Error", "Indexer response missing data: url")

\* Body of the requestPromise IIFE after the fetch resolved.
ClassifyEnvelopeFirst(response) ==
  IF response.success = "false"
  THEN ServerError(IF response.error \notin {Undefined, ""} THEN response.error
                   ELSE RequestFailedMessage)
  ELSE IF ~response.ok THEN HttpError(response.status)
  ELSE IF response.data = Undefined THEN MissingDataError
  ELSE Fulfilled(response.data)

Classify(response) ==
  IF ~response.ok THEN HttpError(response.status)
  ELSE IF response.success = "false"
       THEN ServerError(IF response.error \notin {Undefined, ""} THEN response.error
                        ELSE RequestFailedMessage)
  ELSE IF response.data = Undefined THEN MissingDataError
  ELSE Fulfilled(response.data)

\* State of requestPromise number r
Outcome(request) ==
  CASE request.state = "pending" -> Pending
    [] request.state = "aborted" -> AbortError
    [] OTHER -> Classify(request.response)

\* ------------------------------------------------------- journalTransform
\* Date strings the model knows and new Date(s).getTime() of each; every other
\* string is an invalid date (getTime() is NaN).
EpochIso == "1970-01-01T00:00:00.000Z"

ValidDateStrings ==
  { EpochIso, "1970-01-01T00:00:01.000Z", "1970-01-01T00:00:02.000Z", "1970-01-01T00:00:02Z",
    "1969-12-31T23:59:59.000Z", "1970-01-01T00:00:44.000Z", "1970-01-01T00:00:45.000Z",
    "1970-01-01T00:05:45.000Z", "1970-01-01T00:05:46.000Z" }

getTime(s) ==
  CASE s = EpochIso -> 0
    [] s = "1970-01-01T00:00:01.000Z" -> 1000
    [] s = "1970-01-01T00:00:02.000Z" -> 2000
    [] s = "1970-01-01T00:00:02Z" -> 2000
    [] s = "1969-12-31T23:59:59.000Z" -> 0 - 1000
    [] s = "1970-01-01T00:00:44.000Z" -> 44000
    [] s = "1970-01-01T00:00:45.000Z" -> 45000
    [] s = "1970-01-01T00:05:45.000Z" -> 345000
    [] s = "1970-01-01T00:05:46.000Z" -> 346000

\* Date.prototype.toISOString
toISOString(ms) ==
  CASE ms = 0 -> EpochIso
    [] ms = 1000 -> "1970-01-01T00:00:01.000Z"
    [] ms = 2000 -> "1970-01-01T00:00:02.000Z"
    [] ms = 0 - 1000 -> "1969-12-31T23:59:59.000Z"
    [] ms = 44000 -> "1970-01-01T00:00:44.000Z"
    [] ms = 45000 -> "1970-01-01T00:00:45.000Z"
    [] ms = 345000 -> "1970-01-01T00:05:45.000Z"
    [] ms = 346000 -> "1970-01-01T00:05:46.000Z"

fallbackTimestamp(value) ==
  IF value \in {Undefined, ""} THEN toISOString(0)
  ELSE IF value \notin ValidDateStrings THEN toISOString(0)
  ELSE toISOString(getTime(value))

safePool(value) == IF value \in {Undefined, ""} THEN "unknown-pool" ELSE value

\* `${type}-${event.id ?? index}` with the 0-based index of the event
entryId(type, event, i) ==
  type \o "-" \o (IF event.id # Undefined THEN event.id ELSE ToString(i - 1))

\* JournalEntry without txSignature and its display texts (title, subtitle,
\* amountSummary)
buildSwapEntry(event, i) ==
  [id |-> entryId("swap", event, i), type |-> "swap",
   timestamp |-> fallbackTimestamp(event.timestamp),
   poolAddress |-> safePool(event.pair)]

buildLendingEntry(event, i) ==
  [id |-> entryId("lending", event, i), type |-> "lending",
   timestamp |-> fallbackTimestamp(event.event_timestamp),
   poolAddress |-> safePool(event.pair)]

buildLiquidityEntry(event, i) ==
  [id |-> entryId("liquidity", event, i), type |-> "liquidity",
   timestamp |-> fallbackTimestamp(event.timestamp),
   poolAddress |-> safePool(event.pair.address)]

\* Insert entry e into a list sorted by the comparator
\* (a, b) => getTime(b.timestamp) - getTime(a.timestamp), behind every element
\* the comparator does not order after it (Array.prototype.sort is stable).
RECURSIVE InsertByTimeDescBeforeTies(_, _)
InsertByTimeDescBeforeTies(e, s) ==
  IF s = <<>> THEN <<e>>
  ELSE IF getTime(e.timestamp) - getTime(Head(s).timestamp) < 0
       THEN <<Head(s)>> \o InsertByTimeDescBeforeTies(e, Tail(s))
       ELSE <<e>> \o s

RECURSIVE InsertByTimeDesc(_, _)
InsertByTimeDesc(e, s) ==
  IF s = <<>> THEN <<e>>
  ELSE IF getTime(e.timestamp) - getTime(Head(s).timestamp) <= 0
       THEN <<Head(s)>> \o InsertByTimeDesc(e, Tail(s))
       ELSE <<e>> \o s

SortByTimeDescKeepOrder(entries) == entries

RECURSIVE SortByTimeDesc(_)
SortByTimeDesc(entries) ==
  IF entries = <<>> THEN <<>>
  ELSE InsertByTimeDesc(entries[Len(entries)],
                        SortByTimeDesc(SubSeq(entries, 1, Len(entries) - 1)))

mergeJournalEntries(input) ==
  LET swapEntries == [i \in DOMAIN input.swaps |-> buildSwapEntry(input.swaps[i], i)]
      lendingEntries == [i \in DOMAIN input.lending |-> buildLendingEntry(input.lending[i], i)]
      liquidityEntries == [i \in DOMAIN input.liquidity |-> buildLiquidityEntry(input.liquidity[i], i)]
  IN SortByTimeDesc(swapEntries \o lendingEntries \o liquidityEntries)

\* ----------------------------------------------------------------- numbers
\* A JavaScript number is modelled as an exact fraction n/d with d > 0; the
\* rounding of floating point arithmetic is outside the model.
RECURSIVE Gcd(_, _)
Gcd(a, b) == IF b = 0 THEN a ELSE Gcd(b, a % b)

Abs(i) == IF i < 0 THEN 0 - i ELSE i

R(n, d) ==
  LET g == Gcd(Abs(n), d)
  IN [n |-> n \div g, d |-> d \div g]

RInt(i) == [n |-> i, d |-> 1]
RAdd(a, b) == R(a.n * b.d + b.n * a.d, a.d * b.d)
RSub(a, b) == R(a.n * b.d - b.n * a.d, a.d * b.d)
RMul(a, b) == R(a.n * b.n, a.d * b.d)
\* a / b for b # 0
RDiv(a, b) == IF b.n > 0 THEN R(a.n * b.d, a.d * b.n) ELSE R(0 - a.n * b.d, a.d * (0 - b.n))
RLe(a, b) == a.n * b.d <= b.n * a.d
RLt(a, b) == a.n * b.d < b.n * a.d
RMin(a, b) == IF RLe(a, b) THEN a ELSE b
RMax(a, b) == IF RLe(a, b) THEN b ELSE a
RAbs(a) == [n |-> Abs(a.n), d |-> a.d]
\* Math.floor
RFloor(a) == a.n \div a.d

\* formatters.ts
clamp(value, min, max) == RMin(max, RMax(min, value))

\* ------------------------------------------------------ quantile, toBucket
\* [...values].sort((a, b) => a - b)
RECURSIVE InsertAsc(_, _)
InsertAsc(v, sorted) ==
  IF sorted = <<>> THEN <<v>>
  ELSE IF RLt(v, Head(sorted)) THEN <<v>> \o sorted
  ELSE <<Head(sorted)>> \o InsertAsc(v, Tail(sorted))

SortAscKeepOrder(values) == values

RECURSIVE SortAsc(_)
SortAsc(values) ==
  IF values = <<>> THEN <<>>
  ELSE InsertAsc(values[Len(values)], SortAsc(SubSeq(values, 1, Len(values) - 1)))

\* index i is 0-based as in the code
Interpolate(sorted, q) ==
  LET pos == RMul(RInt(Len(sorted) - 1), q)
      base == RFloor(pos)
      rest == RSub(pos, RInt(base))
      right == IF base + 2 \in DOMAIN sorted THEN sorted[base + 2] ELSE sorted[base + 1]
  IN RAdd(sorted[base + 1], RMul(rest, RSub(right, sorted[base + 1])))

quantile(values, q) ==
  IF values = <<>> THEN RInt(0) ELSE Interpolate(SortAsc(values), q)

toBucketExclusive(values, value) ==
  IF values = <<>> THEN 0
  ELSE IF RLt(value, quantile(values, R(1, 5))) THEN 0
  ELSE IF RLt(value, quantile(values, R(2, 5))) THEN 1
  ELSE IF RLt(value, quantile(values, R(3, 5))) THEN 2
  ELSE IF RLt(value, quantile(values, R(4, 5))) THEN 3
  ELSE 4

toBucket(values, value) ==
  IF values = <<>> THEN 0
  ELSE IF RLe(value, quantile(values, R(1, 5))) THEN 0
  ELSE IF RLe(value, quantile(values, R(2, 5))) THEN 1
  ELSE IF RLe(value, quantile(values, R(3, 5))) THEN 2
  ELSE IF RLe(value, quantile(values, R(4, 5))) THEN 3
  ELSE 4

\* ------------------------------------------------------------ buildHeatmap
\* JSON values of the indexer's records
JUndefined == [t |-> "undefined"]
JNumber(i) == [t |-> "number", num |-> i]
JString(str) == [t |-> "string", str |-> str]
JObject(fields) == [t |-> "object", fields |-> fields]

\* Number(str) for the strings of the model; every other string is NaN
NumericStrings == {"7", ""}
NumberOf(str) == CASE str = "7" -> 7 [] str = "" -> 0

\* formatters.ts toNumber: finite numbers and numeric strings, else 0
toNumber(value) ==
  CASE value.t = "number" -> RInt(value.num)
    [] value.t = "string" -> IF value.str \in NumericStrings THEN RInt(NumberOf(value.str)) ELSE RInt(0)
    [] OTHER -> RInt(0)

\* obj?.field
Field(obj, field) ==
  IF obj.t = "object" /\ field \in DOMAIN obj.fields THEN obj.fields[field] ELSE JUndefined

RECURSIVE sumNumberish(_)
sumNumberish(values) ==
  IF values = <<>> THEN RInt(0) ELSE RAdd(toNumber(Head(values)), sumNumberish(Tail(values)))

parseVolumeLike(value) ==
  CASE value.t = "undefined" -> RInt(0)
    [] value.t \in {"number", "string"} -> toNumber(value)
    [] value.t = "object" ->
         sumNumberish(<<Field(value, "token0"), Field(value, "token1"), Field(value, "volume0"),
                        Field(value, "volume1"), Field(value, "total")>>)

\* Boolean(pool.pair_address)
HasAddress(pool) == pool.pair_address \notin {Undefined, ""}

compositeScoreConstant(liquidityValue, volumeValue) == RInt(1)

compositeScore(liquidityValue, volumeValue) ==
  RMul(RAdd(liquidityValue, RInt(1)), RAdd(volumeValue, RInt(1)))

\* a point before its buckets are known (the symbols are not modelled)
PointBase(pool) ==
  LET liquidityValue == RAdd(toNumber(Field(pool.reserves, "token0")),
                             toNumber(Field(pool.reserves, "token1")))
      volumeValue == parseVolumeLike(pool.volume_24h)
  IN [poolAddress |-> pool.pair_address, liquidityValue |-> liquidityValue,
      volumeValue |-> volumeValue,
      compositeScore |-> compositeScore(liquidityValue, volumeValue)]

RECURSIVE SelectAddressed(_)
SelectAddressed(pools) ==
  IF pools = <<>> THEN <<>>
  ELSE (IF HasAddress(Head(pools)) THEN <<Head(pools)>> ELSE <<>>) \o SelectAddressed(Tail(pools))

\* stable sort by (a, b) => b.compositeScore - a.compositeScore
RECURSIVE InsertByScoreDesc(_, _)
InsertByScoreDesc(point, sorted) ==
  IF sorted = <<>> THEN <<point>>
  ELSE IF RLe(point.compositeScore, Head(sorted).compositeScore)
       THEN <<Head(sorted)>> \o InsertByScoreDesc(point, Tail(sorted))
       ELSE <<point>> \o sorted

RECURSIVE SortByScoreDesc(_)
SortByScoreDesc(points) ==
  IF points = <<>> THEN <<>>
  ELSE InsertByScoreDesc(points[Len(points)],
                         SortByScoreDesc(SubSeq(points, 1, Len(points) - 1)))

RECURSIVE PointsInCell(_, _, _)
PointsInCell(points, x, y) ==
  IF points = <<>> THEN <<>>
  ELSE (IF Head(points).liquidityBucket = x /\ Head(points).volumeBucket = y
          THEN <<Head(points)>> ELSE <<>>) \o PointsInCell(Tail(points), x, y)

RECURSIVE MaxOf(_)
MaxOf(counts) ==
  IF counts = <<>> THEN 1
  ELSE LET rest == MaxOf(Tail(counts)) IN IF Head(counts) > rest THEN Head(counts) ELSE rest

intensityRaw(poolCount, maxCount) == RInt(poolCount)

intensity(poolCount, maxCount) == IF poolCount > 0 THEN R(poolCount, maxCount) ELSE RInt(0)

buildHeatmap(pools) ==
  LET addressed == SelectAddressed(pools)
      pointsBase == [i \in DOMAIN addressed |-> PointBase(addressed[i])]
      liquidityValues == [i \in DOMAIN pointsBase |-> pointsBase[i].liquidityValue]
      volumeValues == [i \in DOMAIN pointsBase |-> pointsBase[i].volumeValue]
      points == [i \in DOMAIN pointsBase |->
                   [poolAddress |-> pointsBase[i].poolAddress,
                    liquidityValue |-> pointsBase[i].liquidityValue,
                    volumeValue |-> pointsBase[i].volumeValue,
                    compositeScore |-> pointsBase[i].compositeScore,
                    liquidityBucket |-> toBucket(liquidityValues, pointsBase[i].liquidityValue),
                    volumeBucket |-> toBucket(volumeValues, pointsBase[i].volumeValue)]]
      \* cellMap in insertion order: y outer, x inner
      filled == [k \in 1..25 |->
                   LET x == (k - 1) % 5
                       y == (k - 1) \div 5
                       members == PointsInCell(points, x, y)
                   IN [x |-> x, y |-> y, poolCount |-> Len(members), pools |-> members]]
      maxCount == MaxOf([k \in 1..25 |-> filled[k].poolCount])
  IN [points |-> SortByScoreDesc(points),
      cells |-> [k \in 1..25 |->
                   [x |-> filled[k].x, y |-> filled[k].y, poolCount |-> filled[k].poolCount,
                    intensity |-> intensity(filled[k].poolCount, maxCount),
                    pools |-> SortByScoreDesc(filled[k].pools)]]]

\* --------------------------------------------------------------- riskModel
labelRisk(score) ==
  IF RLe(RInt(75), score) THEN "Critical"
  ELSE IF RLe(RInt(55), score) THEN "High"
  ELSE IF RLe(RInt(30), score) THEN "Moderate"
  ELSE "Low"

computeCompositeRiskScoreUnclamped(inputs) ==
  LET score == clamp(RAdd(RAdd(RMul(inputs.utilizationStress, R(9, 20)),
                               RMul(inputs.debtSkewStress, R(7, 20))),
                          RMul(inputs.eventMomentumStress, R(1, 5))),
                     RInt(0), RInt(100))
  IN [score |-> score, label |-> labelRisk(score)]

\* the weights 0.45, 0.35 and 0.2 are 9/20, 7/20 and 1/5
computeCompositeRiskScore(inputs) ==
  LET utilization == clamp(inputs.utilizationStress, RInt(0), RInt(100))
      skew == clamp(inputs.debtSkewStress, RInt(0), RInt(100))
      momentum == clamp(inputs.eventMomentumStress, RInt(0), RInt(100))
      score == clamp(RAdd(RAdd(RMul(utilization, R(9, 20)), RMul(skew, R(7, 20))),
                          RMul(momentum, R(1, 5))),
                     RInt(0), RInt(100))
  IN [score |-> score, label |-> labelRisk(score)]

\* ------------------------------------------------------------ fetchSwapTape
\* speedTier(deltaSeconds).  The argument is null, NaN (one of the two dates
\* is invalid; every comparison with NaN is false) or a difference, kept in
\* milliseconds.
NullDelta == [kind |-> "null"]
NaNDelta == [kind |-> "NaN"]
MsDelta(ms) == [kind |-> "number", ms |-> ms]

speedTier(delta) ==
  IF delta.kind = "null" THEN "Normal"
  ELSE IF delta.kind = "NaN" THEN "Normal"
  ELSE IF delta.ms < 45 * 1000 THEN "Fast"
  ELSE IF delta.ms > 300 * 1000 THEN "Slow"
  ELSE "Normal"

sizeTier(value, values) ==
  IF RLe(value, quantile(values, R(1, 4))) THEN "S"
  ELSE IF RLe(value, quantile(values, R(1, 2))) THEN "M"
  ELSE IF RLe(value, quantile(values, R(3, 4))) THEN "L"
  ELSE "XL"

\* The object built by the first map of fetchSwapTape, without txSignature,
\* userAddress, amountOut, impliedPrice, isToken0In and slot.
swapItem(swap, i) ==
  [id |-> IF swap.id # Undefined THEN swap.id ELSE ToString(i - 1),
   timestamp |-> IF swap.timestamp \in {Undefined, ""} THEN toISOString(0) ELSE swap.timestamp,
   amountIn |-> RAbs(toNumber(IF "amount_in" \in DOMAIN swap THEN swap.amount_in
                              ELSE JUndefined))]

\* (a, b) => new Date(b.timestamp).getTime() - new Date(a.timestamp).getTime()
\* on timestamps that were not validated: NaN when either date is invalid,
\* which Array.prototype.sort reads as +0.
compareSwaps(a, b) ==
  IF a.timestamp \in ValidDateStrings /\ b.timestamp \in ValidDateStrings
  THEN getTime(b.timestamp) - getTime(a.timestamp)
  ELSE 0

\* Insert e into the items placed so far, behind every item the comparator
\* does not order after it, looking from the back or from the front.  The two
\* agree whenever the comparator is consistent.
RECURSIVE InsertSwap(_, _, _)
InsertSwap(e, s, fromBack) ==
  IF s = <<>> THEN <<e>>
  ELSE IF fromBack
       THEN IF compareSwaps(s[Len(s)], e) > 0
            THEN InsertSwap(e, SubSeq(s, 1, Len(s) - 1), fromBack) \o <<s[Len(s)]>>
            ELSE s \o <<e>>
       ELSE IF compareSwaps(Head(s), e) <= 0
            THEN <<Head(s)>> \o InsertSwap(e, Tail(s), fromBack)
            ELSE <<e>> \o s

RECURSIVE SortSwaps(_, _)
SortSwaps(items, fromBack) ==
  IF items = <<>> THEN <<>>
  ELSE InsertSwap(items[Len(items)], SortSwaps(SubSeq(items, 1, Len(items) - 1), fromBack),
                  fromBack)

\* .sort(comparator): a stable sort.  With an invalid date in the batch the
\* comparator is not consistent and the order is implementation-defined: it
\* depends on the pairs the implementation compares.
sortedSwapItems(items) == { SortSwaps(items, fromBack) : fromBack \in BOOLEAN }

\* The second map of fetchSwapTape over the sorted items
tierSwapItems(swaps) ==
  LET amountValues == [i \in DOMAIN swaps |-> swaps[i].amountIn]
      delta(i) ==
        IF i = 1 THEN NullDelta
        ELSE IF swaps[i - 1].timestamp \in ValidDateStrings /\ swaps[i].timestamp \in ValidDateStrings
             THEN MsDelta(Abs(getTime(swaps[i - 1].timestamp) - getTime(swaps[i].timestamp)))
             ELSE NaNDelta
  IN [i \in DOMAIN swaps |->
        [id |-> swaps[i].id, timestamp |-> swaps[i].timestamp, amountIn |-> swaps[i].amountIn,
         sizeTier |-> sizeTier(swaps[i].amountIn, amountValues),
         speedTier |-> speedTier(delta(i))]]

\* The tapes fetchSwapTape may return for the swaps of a response
swapTapes(swaps) ==
  { tierSwapItems(sorted) : sorted \in sortedSwapItems([i \in DOMAIN swaps |-> swapItem(swaps[i], i)]) }

\* ------------------------------------------------------------ Query Facade
\* Promises of the facade's getIndexerData calls; payloads are lists.
Unissued == [status |-> "unissued", value |-> <<>>, name |-> "", message |-> ""]
SubPending == [status |-> "pending", value |-> <<>>, name |-> "", message |-> ""]
SubFulfilled(value) == [status |-> "fulfilled", value |-> value, name |-> "", message |-> ""]
SubRejected(name, message) == [status |-> "rejected", value |-> <<>>, name |-> name, message |-> message]

SubNames == {"chart", "volume", "fees", "stats", "positions", "poolInfo", "lending", "swaps", "pools"}

Settled(p) == p.status \in {"fulfilled", "rejected"}

\* fetch() rejected because options.signal fired
SubAbortError == SubRejected("AbortError", "The operation was aborted")

\* getIndexerData threw one of its Errors (here: a non-2xx response)
SubHttpError == SubRejected("Error", "Indexer request failed (500)")

\* Payloads (the list or record inside data; an absent list reads as [])
swapA == [id |-> "7", pair |-> "poolA", timestamp |-> "1970-01-01T00:00:02Z"]
swapB == [id |-> Undefined, pair |-> Undefined, timestamp |-> "garbage"]
lendA == [id |-> Undefined, pair |-> "poolB", event_timestamp |-> "1970-01-01T00:00:01.000Z"]
\* positions and lending events as fetchPoolRisk reads them
positionA ==
  [collateral |-> JNumber(10), debtWithInterest |-> JNumber(4), debtShares |-> JUndefined,
   collateralToken |-> "token0", debtToken |-> "token1"]
positionB ==
  [collateral |-> JString("7"), debtWithInterest |-> JUndefined, debtShares |-> JNumber(30),
   collateralToken |-> "token1", debtToken |-> "token0"]
positionC ==
  [collateral |-> JNumber(0 - 5), debtWithInterest |-> JNumber(0 - 3), debtShares |-> JNumber(9),
   collateralToken |-> Undefined, debtToken |-> Undefined]
borrowEvent ==
  [event_timestamp |-> "1970-01-01T00:00:01.000Z", amount0 |-> JNumber(0), amount1 |-> JUndefined,
   event_type |-> "Borrow"]
repayEvent ==
  [event_timestamp |-> "1970-01-01T00:00:02.000Z", amount0 |-> JNumber(0 - 5),
   amount1 |-> JString("abc"), event_type |-> Undefined]
quietEvent ==
  [event_timestamp |-> Undefined, amount0 |-> JNumber(0), amount1 |-> JUndefined,
   event_type |-> "liquidate"]
liqEvent(poolAddress) == [id |-> "3", pair |-> [address |-> poolAddress], timestamp |-> Undefined]

FacadeFunctions == {"performance", "risk", "swapTape", "heatmapPools", "journal"}

\* The getIndexerData calls a facade function issues when invoked
FirstBatch(f, args) ==
  CASE f = "performance" -> {"chart", "volume", "fees", "stats"}
    [] f = "risk" -> IF args.wallet THEN {"positions", "poolInfo", "lending"}
                     ELSE {"positions", "poolInfo"}
    [] f = "swapTape" -> {"swaps"}
    [] f = "heatmapPools" -> {"pools"}
    [] f = "journal" -> {"swaps", "lending", "positions"}

\* What the indexer may answer to each of them
PayloadsOf(f, q) ==
  CASE f = "journal" /\ q = "swaps" -> { <<>>, <<swapA>>, <<swapA, swapB>> }
    [] f = "journal" /\ q = "lending" -> { <<>>, <<lendA>> }
    [] f = "journal" /\ q = "positions" ->
         { <<>>, << [pair |-> "poolC"], [pair |-> Undefined], [pair |-> "poolA"] >> }
    [] f = "performance" /\ q = "chart" -> { <<>>, << [bucket |-> "b1", avg_price |-> 2] >> }
    [] f = "performance" /\ q = "volume" -> { << [volume0 |-> 5, volume1 |-> 7] >> }
    [] f = "performance" /\ q = "fees" ->
         { << [total_fee_paid_in_token0 |-> 1, total_fee_paid_in_token1 |-> 2] >> }
    [] f = "performance" /\ q = "stats" -> { << [apr |-> 12] >> }
    [] f = "risk" /\ q = "positions" ->
         { <<>>, <<positionA>>, <<positionA, positionB>>, <<positionB, positionC>> }
    [] f = "risk" /\ q = "poolInfo" ->
         { << [reserve0 |-> JNumber(10), reserve1 |-> JNumber(10)] >>,
           << [reserve0 |-> JNumber(0), reserve1 |-> JNumber(0)] >>,
           << [reserve0 |-> JString("7"), reserve1 |-> JUndefined] >> }
    [] f = "risk" /\ q = "lending" ->
         { <<>>, <<borrowEvent>>, <<quietEvent>>, <<repayEvent, quietEvent>>,
           <<borrowEvent, repayEvent, borrowEvent>> }
    [] f = "swapTape" /\ q = "swaps" -> { <<>>, <<swapA>> }
    [] f = "heatmapPools" /\ q = "pools" -> { <<>>, << [pair_address |-> "poolA"] >> }

LiquidityPayloads(poolAddress) == { <<>>, <<liqEvent(poolAddress)>> }

\* How a getIndexerData call of the facade may settle: with a payload (from
\* the network or, also after the signal fired, from the cache), with an
\* Error, or - once the signal has fired - with the AbortError of its fetch.
SettleOutcomes(payloads, isAborted) ==
  { SubFulfilled(v) : v \in payloads } \cup (IF isAborted THEN {SubAbortError} ELSE {SubHttpError})

\* ------------------------------------------------------- fetchWalletJournal
MaxJournalPools == 8

\* .catch(error => { errors.push(error instanceof Error ? error.message : ...); return {...: []} })
\* DOMException is an Error, so an AbortError is recorded like any failure.
CaughtValue(p) == IF p.status = "fulfilled" THEN p.value ELSE <<>>

PrimaryMessage(p) == p.message

PushErrorNever(errs, p, message) == errs

\* errors.push(message) in the catch of a call that rejected with p
PushError(errs, p, message) ==
  IF p.status = "rejected" THEN Append(errs, message) ELSE errs

\* `Liquidity events (${poolAddress.slice(0, 6)}...): ${error.message}`; the
\* pool addresses of the model are at most 6 characters long
LiquidityMessage(poolAddress, p) == "Liquidity events (" \o poolAddress \o "): " \o p.message

\* messages pushed when the promises of `names` (in this order) reject
RECURSIVE PrimaryMessages(_, _)
PrimaryMessages(names, S) ==
  IF names = <<>> THEN <<>>
  ELSE (IF S[Head(names)].status = "rejected" THEN <<PrimaryMessage(S[Head(names)])>> ELSE <<>>)
       \o PrimaryMessages(Tail(names), S)

\* poolSet.add(x.pair) for every x with a pair, in order; a Set keeps the
\* insertion order and ignores what it already holds
RECURSIVE AddPairs(_, _)
AddPairs(poolSet, items) ==
  IF items = <<>> THEN poolSet
  ELSE LET pair == Head(items).pair
       IN AddPairs(IF pair \in {Undefined, ""} \/ \E i \in DOMAIN poolSet : poolSet[i] = pair
                   THEN poolSet ELSE Append(poolSet, pair),
                   Tail(items))

LiquidityPoolsOfUnsliced(S) ==
  AddPairs(AddPairs(AddPairs(<<>>, CaughtValue(S["positions"])), CaughtValue(S["swaps"])),
           CaughtValue(S["lending"]))

\* [...poolSet].slice(0, 8)
LiquidityPoolsOf(S) ==
  LET poolSet == AddPairs(AddPairs(AddPairs(<<>>, CaughtValue(S["positions"])),
                                   CaughtValue(S["swaps"])),
                          CaughtValue(S["lending"]))
  IN SubSeq(poolSet, 1, IF Len(poolSet) < MaxJournalPools THEN Len(poolSet) ELSE MaxJournalPools)

\* liquidityResults.flat()
RECURSIVE Flat(_)
Flat(results) ==
  IF results = <<>> THEN <<>> ELSE CaughtValue(Head(results)) \o Flat(Tail(results))

JournalResult(S, L, errs) ==
  SubFulfilled([entries |-> mergeJournalEntries([swaps |-> CaughtValue(S["swaps"]),
                                                 lending |-> CaughtValue(S["lending"]),
                                                 liquidity |-> Flat(L)]),
                errors |-> errs])

\* ---------------------------------------------------------- getIndexerData
\* const ttlMs = options?.ttlMs ?? DEFAULT_CACHE_TTL_MS
ttlOf(options) == IF options.ttlMs = <<>> THEN DEFAULT_CACHE_TTL_MS ELSE options.ttlMs[1]

\* const canShareInflight = !options?.signal
canShareInflightAlways(signal) == TRUE

canShareInflightNever(signal) == FALSE

canShareInflight(signal) == ~signal

\* cached && now - cached.timestamp < ttlMs
IsFreshInclusive(cached, ttlMs) == cached # NoEntry /\ now - cached.timestamp <= ttlMs

IsFresh(cached, ttlMs) == cached # NoEntry /\ now - cached.timestamp < ttlMs

\* if (!options?.force) { ... if (cached && fresh) return cached.data }
ServedFromCacheIgnoringForce(options, cached) == IsFresh(cached, ttlOf(options))

ServedFromCache(options, cached) == ~options.force /\ IsFresh(cached, ttlOf(options))

\* responseCache.set(cacheKey, {timestamp: Date.now(), data: json.data}), reached
\* only when no throw preceded it.
StoreResponseAlways(cache, cacheKey, response) ==
  [cache EXCEPT ![cacheKey] = [timestamp |-> now, data |-> response.data]]

StoreResponseKeepFirst(cache, cacheKey, response) ==
  IF Classify(response).status = "fulfilled" /\ cache[cacheKey] = NoEntry
  THEN [cache EXCEPT ![cacheKey] = [timestamp |-> now, data |-> Classify(response).value]]
  ELSE cache

StoreResponse(cache, cacheKey, response) ==
  IF Classify(response).status = "fulfilled"
  THEN [cache EXCEPT ![cacheKey] = [timestamp |-> now, data |-> Classify(response).value]]
  ELSE cache

\* finally { if (canShareInflight) inflightRequests.delete(cacheKey) }, run by
\* the call that created the request; a call that awaited an existing promise
\* returned before the try block.
FinallyOnSuccessOnly(inflight, call, outcome) ==
  IF call.pc = "own" /\ canShareInflight(call.signal) /\ outcome.status = "fulfilled"
  THEN [inflight EXCEPT ![call.key] = NoRequest]
  ELSE inflight

FinallyNever(inflight, call, outcome) == inflight

Finally(inflight, call, outcome) ==
  IF call.pc = "own" /\ canShareInflight(call.signal)
  THEN [inflight EXCEPT ![call.key] = NoRequest]
  ELSE inflight

\* A call record: its cache key, whether it carries a signal, where it stands
\* (pc: "own" = awaiting its own requestPromise, "shared" = awaiting an
\* existing in-flight promise, "done" = settled), the request it awaits and
\* its settled result.
NewCall(cacheKey, options, pc, req, result) ==
  [key |-> cacheKey, signal |-> options.signal, pc |-> pc, req |-> req, result |-> result]

\* Value of last when the latest step was not a getIndexerData invocation
NoCall == [path |-> "", params |-> <<>>, options |-> [signal |-> FALSE, force |-> FALSE, ttlMs |-> <<>>]]

\* getIndexerData up to its first suspension point (or its return on a hit)
getIndexerData(path, params, options) ==
  LET cacheKey == buildUrl(path, params)
      cached == responseCache[cacheKey]
      existing == inflightRequests[cacheKey]
      r == Len(requests) + 1
  IN /\ last' = [path |-> path, params |-> params, options |-> options]
     /\ IF ServedFromCache(options, cached)
        THEN \* served from the cache: no request, no in-flight bookkeeping
             /\ calls' = Append(calls, NewCall(cacheKey, options, "done", NoRequest,
                                               Fulfilled(cached.data)))
             /\ UNCHANGED <<requests, inflightRequests>>
        ELSE IF canShareInflight(options.signal) /\ existing # NoRequest
        THEN \* await the shared promise
             /\ calls' = Append(calls, NewCall(cacheKey, options, "shared", existing, Pending))
             /\ UNCHANGED <<requests, inflightRequests>>
        ELSE \* issue the fetch; register it only when no signal was supplied
             /\ requests' = Append(requests, [key |-> cacheKey, signal |-> options.signal,
                                              state |-> "pending", response |-> NoResponse])
             /\ inflightRequests' = IF canShareInflight(options.signal)
                                    THEN [inflightRequests EXCEPT ![cacheKey] = r]
                                    ELSE inflightRequests
             /\ calls' = Append(calls, NewCall(cacheKey, options, "own", r, Pending))
     /\ UNCHANGED <<now, responseCache>>
     /\ UNCHANGED <<facadeVars, pureVars, panelVars>>

\* Some caller invokes getIndexerData.
Call ==
  /\ Len(calls) < MaxCalls
  /\ \E path \in Paths, params \in ParamChoices, options \in OptionChoices :
       getIndexerData(path, params, options)

\* Some caller invokes getIndexerData for the one query of EnvelopeParams.
EnvelopeCall ==
  /\ Len(calls) < MaxCalls
  /\ \E path \in Paths, params \in EnvelopeParams, options \in EnvelopeOptions :
       getIndexerData(path, params, options)

\* Some callers keep asking for one query, with or without a signal and force.
SharedCall ==
  /\ Len(calls) < MaxSharedCalls
  /\ \E path \in Paths, params \in EnvelopeParams, options \in EnvelopeOptions :
       getIndexerData(path, params, options)

\* The fetch of request r completes and the rest of the requestPromise body
\* runs: classify the response, and on success write the cache.
Respond(r, response) ==
  /\ requests[r].state = "pending"
  /\ requests' = [requests EXCEPT ![r].state = "settled", ![r].response = response]
  /\ responseCache' = StoreResponse(responseCache, requests[r].key, response)
  /\ last' = NoCall
  /\ UNCHANGED <<now, inflightRequests, calls>>
  /\ UNCHANGED <<facadeVars, pureVars, panelVars>>

\* The caller's AbortSignal fires while the fetch of request r is outstanding:
\* fetch rejects with AbortError and the rest of the body is skipped.
Abort(r) ==
  /\ requests[r].state = "pending"
  /\ requests[r].signal
  /\ requests' = [requests EXCEPT ![r].state = "aborted"]
  /\ last' = NoCall
  /\ UNCHANGED <<now, responseCache, inflightRequests, calls>>
  /\ UNCHANGED <<facadeVars, pureVars, panelVars>>

\* Call c resumes after its await: it returns or throws what the promise
\* settled with; the call that created the request runs its finally block.
Resume(c) ==
  LET outcome == Outcome(requests[calls[c].req])
  IN /\ calls[c].pc \in {"own", "shared"}
     /\ requests[calls[c].req].state # "pending"
     /\ calls' = [calls EXCEPT ![c].pc = "done", ![c].result = outcome]
     /\ inflightRequests' = Finally(inflightRequests, calls[c], outcome)
     /\ last' = NoCall
     /\ UNCHANGED <<now, responseCache, requests>>
     /\ UNCHANGED <<facadeVars, pureVars, panelVars>>

\* Time passes.
Tick ==
  /\ now < MaxTicks * TickMs
  /\ now' = now + TickMs
  /\ last' = NoCall
  /\ UNCHANGED <<responseCache, inflightRequests, requests, calls>>
  /\ UNCHANGED <<facadeVars, pureVars, panelVars>>

\* Module state after load: both maps empty; no facade function invoked.
CacheInit ==
  /\ now = 0
  /\ responseCache = [k \in Keys |-> NoEntry]
  /\ inflightRequests = [k \in Keys |-> NoRequest]
  /\ requests = <<>>
  /\ calls = <<>>
  /\ last = NoCall

FacadeInit ==
  /\ fn = "none"
  /\ fargs = [signal |-> FALSE, wallet |-> FALSE]
  /\ aborted = FALSE
  /\ fpc = "idle"
  /\ subs = [q \in SubNames |-> Unissued]
  /\ liquidityPools = <<>>
  /\ liquidity = <<>>
  /\ errors = <<>>
  /\ fresult = SubPending

\* No pure function under study
NoInput == [f |-> "none"]
NoOutput == [done |-> FALSE]
Returned(value) == [done |-> TRUE, value |-> value]

PureIdle == pin = NoInput /\ pout = NoOutput

NoLoad == [trigger |-> "none", force |-> FALSE]

\* useState(false), useState(null), useState(null); stats is shown as the
\* number of the load that delivered it, 0 for null
FreshState == [loading |-> FALSE, error |-> Undefined, stats |-> 0]

PanelIdle ==
  /\ panelMounted = FALSE
  /\ panelPool = [poolAddress |-> "poolA", windowHours |-> 24]
  /\ refreshTick = 0
  /\ lastLoad = NoLoad
  /\ panelState = FreshState
  /\ loads = <<>>

Init == CacheInit /\ FacadeInit /\ PureIdle /\ PanelIdle

Next ==
  \/ Call
  \/ \E r \in 1..Len(requests), response \in CoreResponses : Respond(r, response)
  \/ \E r \in 1..Len(requests) : Abort(r)
  \/ \E c \in 1..Len(calls) : Resume(c)
  \/ Tick

Spec == Init /\ [][Next]_vars

\* The same client with every envelope shape of Responses.
NextEnvelope ==
  \/ EnvelopeCall
  \/ \E r \in 1..Len(requests), response \in Responses : Respond(r, response)
  \/ \E r \in 1..Len(requests) : Abort(r)
  \/ \E c \in 1..Len(calls) : Resume(c)
  \/ Tick

SpecEnvelope == Init /\ [][NextEnvelope]_vars

\* The same client with more callers contending for one key, none of which
\* fires its signal.
NextShared ==
  \/ SharedCall
  \/ \E r \in 1..Len(requests), response \in CoreResponses : Respond(r, response)
  \/ \E c \in 1..Len(calls) : Resume(c)
  \/ Tick

SpecShared == Init /\ [][NextShared]_vars

\* ------------------------------------------------ Query Facade functions
\* One invocation of a facade function.  Each of its getIndexerData calls is
\* a promise in `subs` (the per-pool liquidity calls in `liquidity`); what the
\* function does when a promise settles is computed in the step that settles
\* it, as the continuation runs before any other event is dispatched.
JournalPrimaries == <<"swaps", "lending", "positions">>

\* volume?.volume0 etc. through toNumber: a missing object counts as 0
FieldOrZero(p, field) == IF p.status = "fulfilled" THEN p.value[1][field] ELSE 0

PerformanceStats(S) ==
  SubFulfilled([series |-> CaughtValue(S["chart"]),
                volume0 |-> FieldOrZero(S["volume"], "volume0"),
                volume1 |-> FieldOrZero(S["volume"], "volume1"),
                fees0 |-> FieldOrZero(S["fees"], "total_fee_paid_in_token0"),
                fees1 |-> FieldOrZero(S["fees"], "total_fee_paid_in_token1"),
                apr |-> IF S["stats"].status = "fulfilled" THEN <<S["stats"].value[1].apr>> ELSE <<>>])

PerformanceResultDefaultsChart(S) == PerformanceStats(S)

\* fetchPoolPerformance after Promise.allSettled: the chart's rejection is
\* rethrown, the other three default to 0 / null (apr is a list of 0 or 1)
PerformanceResult(S) ==
  IF S["chart"].status = "rejected" THEN S["chart"]
  ELSE PerformanceStats(S)

\* ------------------------------------------------------------ fetchPoolRisk
pctOfUnclamped(part, total) ==
  IF ~RLt(RInt(0), total) THEN RInt(0) ELSE RMul(RDiv(part, total), RInt(100))

pctOf(part, total) ==
  IF ~RLt(RInt(0), total) THEN RInt(0)
  ELSE clamp(RMul(RDiv(part, total), RInt(100)), RInt(0), RInt(100))

\* position.debtWithInterest ?? position.debtShares
DebtOf(position) ==
  IF position.debtWithInterest.t # "undefined" THEN position.debtWithInterest
  ELSE position.debtShares

\* sum of amount(position) over the positions whose token field selects token
RECURSIVE SumFor(_, _, _)
SumFor(positions, kind, token1) ==
  IF positions = <<>> THEN RInt(0)
  ELSE LET position == Head(positions)
           isToken1 == IF kind = "collateral" THEN position.collateralToken = "token1"
                       ELSE position.debtToken = "token1"
           amount == IF kind = "collateral" THEN toNumber(position.collateral)
                     ELSE toNumber(DebtOf(position))
       IN RAdd(IF isToken1 = token1 THEN amount ELSE RInt(0),
               SumFor(Tail(positions), kind, token1))

\* (event.event_type || '').toLowerCase().includes(word), for the event types
\* of the model
TypeIncludes(eventType, word) ==
  CASE word = "borrow" -> eventType \in {"Borrow", "borrow"}
    [] word = "repay" -> eventType \in {"Repay", "repay"}

IsPositiveSignal(event) ==
  \/ RLt(RInt(0), toNumber(event.amount0))
  \/ RLt(RInt(0), toNumber(event.amount1))
  \/ TypeIncludes(event.event_type, "borrow")

IsNegativeSignal(event) ==
  \/ RLt(toNumber(event.amount0), RInt(0))
  \/ RLt(toNumber(event.amount1), RInt(0))
  \/ TypeIncludes(event.event_type, "repay")

RECURSIVE CountWhere(_, _)
CountWhere(events, positive) ==
  IF events = <<>> THEN 0
  ELSE (IF (positive /\ IsPositiveSignal(Head(events))) \/ (~positive /\ IsNegativeSignal(Head(events)))
          THEN 1 ELSE 0) + CountWhere(Tail(events), positive)

\* the latest event_timestamp, null (<<>>) when no event has one
RECURSIVE LastEventAt(_, _)
LastEventAt(events, lastEventAt) ==
  IF events = <<>> THEN lastEventAt
  ELSE LET ts == Head(events).event_timestamp
       IN LastEventAt(Tail(events),
                      IF ts \notin {Undefined, ""}
                         /\ (lastEventAt = <<>> \/ getTime(ts) > getTime(lastEventAt[1]))
                        THEN <<ts>> ELSE lastEventAt)

eventMomentum(hasWallet, positiveSignals, negativeSignals) ==
  LET signalCount == positiveSignals + negativeSignals
  IN IF hasWallet /\ signalCount > 0
       THEN clamp(RAdd(RInt(50), RMul(R(positiveSignals - negativeSignals, signalCount), RInt(50))),
                  RInt(0), RInt(100))
     ELSE RInt(50)

\* the BorrowRiskSnapshot built from the three answers
RiskSnapshot(positions, poolInfoData, lendingEvents, hasWallet) ==
  LET collateral0 == SumFor(positions, "collateral", FALSE)
      collateral1 == SumFor(positions, "collateral", TRUE)
      debt0 == SumFor(positions, "debt", FALSE)
      debt1 == SumFor(positions, "debt", TRUE)
      reserve0 == toNumber(poolInfoData.reserve0)
      reserve1 == toNumber(poolInfoData.reserve1)
      utilization0 == IF RLt(RInt(0), reserve0) THEN RMul(RDiv(debt0, reserve0), RInt(100)) ELSE RInt(0)
      utilization1 == IF RLt(RInt(0), reserve1) THEN RMul(RDiv(debt1, reserve1), RInt(100)) ELSE RInt(0)
      utilizationPct == clamp(RMax(utilization0, utilization1), RInt(0), RInt(100))
      totalDebt == RAdd(debt0, debt1)
      totalCollateral == RAdd(collateral0, collateral1)
      totalReserves == RAdd(reserve0, reserve1)
      debtSkewPct == IF RLt(RInt(0), totalDebt)
                       THEN RMul(RDiv(RAbs(RSub(debt0, debt1)), totalDebt), RInt(100))
                     ELSE RInt(0)
      borrowPressurePct == IF RLt(RInt(0), totalReserves)
                             THEN RMul(RDiv(totalDebt, totalReserves), RInt(100))
                           ELSE utilizationPct
      momentum == eventMomentum(hasWallet, CountWhere(lendingEvents, TRUE),
                                CountWhere(lendingEvents, FALSE))
      risk == computeCompositeRiskScore([utilizationStress |-> utilizationPct,
                                         debtSkewStress |-> debtSkewPct,
                                         eventMomentumStress |-> momentum])
  IN [scopeLabel |-> IF hasWallet THEN "Pool + Wallet Events" ELSE "Pool Snapshot",
      utilizationPct |-> utilizationPct,
      borrowPressurePct |-> clamp(borrowPressurePct, RInt(0), RInt(100)),
      debtSkewPct |-> clamp(debtSkewPct, RInt(0), RInt(100)),
      collateralMixToken0Pct |-> pctOf(collateral0, totalCollateral),
      collateralMixToken1Pct |-> pctOf(collateral1, totalCollateral),
      debtMixToken0Pct |-> pctOf(debt0, totalDebt),
      debtMixToken1Pct |-> pctOf(debt1, totalDebt),
      positionCount |-> Len(positions),
      eventMomentum |-> momentum,
      riskScore |-> risk.score,
      riskLabel |-> risk.label,
      lastEventAt |-> LastEventAt(lendingEvents, <<>>)]

RiskResult(S, args) ==
  SubFulfilled(RiskSnapshot(S["positions"].value, S["poolInfo"].value[1], S["lending"].value,
                            args.wallet))

\* fetchSwapTape's result for the responses of PayloadsOf, which hold at most
\* one swap and so have one order
SwapTapeResult(S) ==
  SubFulfilled(CHOOSE tape \in swapTapes(S["swaps"].value) : TRUE)

\* await Promise.all(names): rejects with the first rejection
\* Promise.allSettled(names) has settled
allSettledFailFast(S, names) ==
  (\A q \in names : Settled(S[q])) \/ (\E q \in names : S[q].status = "rejected")

allSettled(S, names) == \A q \in names : Settled(S[q])

FirstRejection(S, names) == S[CHOOSE q \in names : S[q].status = "rejected"]

Running(phase, P, L, errs) ==
  [fpc |-> phase, liquidityPools |-> P, liquidity |-> L, errors |-> errs, fresult |-> SubPending]

Done(P, L, errs, result) ==
  [fpc |-> "done", liquidityPools |-> P, liquidity |-> L, errors |-> errs, fresult |-> result]

\* The facade function f after its promises reached S (and L), in phase
\* `phase` with the messages errs pushed so far.
Continuation(f, args, S, phase, P, L, errs) ==
  LET names == FirstBatch(f, args)
  IN CASE f = "performance" ->
            IF allSettled(S, names) THEN Done(P, L, errs, PerformanceResult(S))
            ELSE Running(phase, P, L, errs)
       [] f = "risk" ->
            IF \E q \in names : S[q].status = "rejected"
              THEN Done(P, L, errs, FirstRejection(S, names))
            ELSE IF \A q \in names : Settled(S[q]) THEN Done(P, L, errs, RiskResult(S, args))
            ELSE Running(phase, P, L, errs)
       [] f = "swapTape" ->
            IF S["swaps"].status = "rejected" THEN Done(P, L, errs, S["swaps"])
            ELSE IF Settled(S["swaps"]) THEN Done(P, L, errs, SwapTapeResult(S))
            ELSE Running(phase, P, L, errs)
       [] f = "heatmapPools" ->
            IF Settled(S["pools"]) THEN Done(P, L, errs, S["pools"])
            ELSE Running(phase, P, L, errs)
       [] f = "journal" ->
            IF phase = "waiting"
              THEN IF \A q \in names : Settled(S[q])
                     THEN LET pools == LiquidityPoolsOf(S)
                          IN IF pools = <<>> THEN Done(pools, <<>>, errs, JournalResult(S, <<>>, errs))
                             ELSE Running("liquidity", pools,
                                          [i \in DOMAIN pools |-> SubPending], errs)
                   ELSE Running(phase, P, L, errs)
            ELSE IF \A i \in DOMAIN L : Settled(L[i])
                   THEN Done(P, L, errs, JournalResult(S, L, errs))
            ELSE Running(phase, P, L, errs)

Step(S, phase, P, L, errs) ==
  LET after == Continuation(fn, fargs, S, phase, P, L, errs)
  IN /\ subs' = S
     /\ fpc' = after.fpc
     /\ liquidityPools' = after.liquidityPools
     /\ liquidity' = after.liquidity
     /\ errors' = after.errors
     /\ fresult' = after.fresult

\* The caller invokes facade function f; its first getIndexerData calls start.
Invoke(f, args) ==
  /\ fpc = "idle"
  /\ fn' = f
  /\ fargs' = args
  /\ subs' = [q \in SubNames |->
               IF q \in FirstBatch(f, args) THEN SubPending
               ELSE IF f = "risk" /\ q = "lending" THEN SubFulfilled(<<>>)
               ELSE Unissued]
  /\ fpc' = "waiting"
  /\ UNCHANGED <<aborted, liquidityPools, liquidity, errors, fresult, cacheVars, pureVars, panelVars>>

\* getIndexerData call q of the first batch settles.
SubSettle(q) ==
  /\ fpc = "waiting"
  /\ subs[q].status = "pending"
  /\ \E outcome \in SettleOutcomes(PayloadsOf(fn, q), aborted) :
       Step([subs EXCEPT ![q] = outcome], fpc, liquidityPools, liquidity,
            IF fn = "journal" THEN PushError(errors, outcome, PrimaryMessage(outcome))
            ELSE errors)
  /\ UNCHANGED <<fn, fargs, aborted, cacheVars, pureVars, panelVars>>

\* The liquidity-events call for liquidityPools[i] settles.
LiquiditySettle(i) ==
  /\ fpc = "liquidity"
  /\ i \in DOMAIN liquidity
  /\ liquidity[i].status = "pending"
  /\ \E outcome \in SettleOutcomes(LiquidityPayloads(liquidityPools[i]), aborted) :
       Step(subs, fpc, liquidityPools, [liquidity EXCEPT ![i] = outcome],
            PushError(errors, outcome, LiquidityMessage(liquidityPools[i], outcome)))
  /\ UNCHANGED <<fn, fargs, aborted, cacheVars, pureVars, panelVars>>

RECURSIVE LiquidityMessages(_, _, _)
LiquidityMessages(P, before, after) ==
  IF P = <<>> THEN <<>>
  ELSE (IF Head(before).status = "pending" /\ Head(after).status = "rejected"
          THEN <<LiquidityMessage(Head(P), Head(after))>> ELSE <<>>)
       \o LiquidityMessages(Tail(P), Tail(before), Tail(after))

\* The caller's AbortSignal fires: every fetch still outstanding rejects with
\* an AbortError, in the order the fetches were started.
AbortSignal ==
  /\ fargs.signal
  /\ ~aborted
  /\ fpc \in {"waiting", "liquidity"}
  /\ aborted' = TRUE
  /\ LET S == [q \in SubNames |-> IF subs[q].status = "pending" THEN SubAbortError ELSE subs[q]]
         L == [i \in DOMAIN liquidity |->
                 IF liquidity[i].status = "pending" THEN SubAbortError ELSE liquidity[i]]
         rejectedNow == [q \in SubNames |-> IF subs[q].status = "pending" THEN SubAbortError
                                            ELSE Unissued]
         errs == IF fn = "journal"
                   THEN errors \o PrimaryMessages(JournalPrimaries, rejectedNow)
                               \o LiquidityMessages(liquidityPools, liquidity, L)
                 ELSE errors
     IN Step(S, fpc, liquidityPools, L, errs)
  /\ UNCHANGED <<fn, fargs, cacheVars, pureVars, panelVars>>

NextFacade ==
  \/ \E f \in FacadeFunctions, args \in [signal : BOOLEAN, wallet : BOOLEAN] : Invoke(f, args)
  \/ \E q \in SubNames : SubSettle(q)
  \/ \E i \in 1..MaxJournalPools : LiquiditySettle(i)
  \/ AbortSignal

SpecFacade == Init /\ [][NextFacade]_vars

\* fetchWalletJournal for a wallet active in more pools than the journal
\* follows: seven pools among its positions (one twice, one record without a
\* pair), another one in its swaps and a ninth in its lending events.
BusyPayloadsOf(q) ==
  CASE q = "positions" ->
         { << [pair |-> "p1"], [pair |-> "p2"], [pair |-> "p3"], [pair |-> "p1"],
              [pair |-> "p4"], [pair |-> Undefined], [pair |-> "p5"], [pair |-> "p6"],
              [pair |-> "p7"] >> }
    [] q = "swaps" -> { <<>>, <<swapA>> }
    [] q = "lending" -> { <<lendA>> }

\* The journal panel of the busy wallet loads.
BusyInvoke ==
  /\ fn = "none"
  /\ Invoke("journal", [signal |-> FALSE, wallet |-> TRUE])

\* A primary query of the busy wallet settles.
BusySettle(q) ==
  /\ fn = "journal"
  /\ fpc = "waiting"
  /\ subs[q].status = "pending"
  /\ \E outcome \in SettleOutcomes(BusyPayloadsOf(q), aborted) :
       Step([subs EXCEPT ![q] = outcome], fpc, liquidityPools, liquidity,
            PushError(errors, outcome, PrimaryMessage(outcome)))
  /\ UNCHANGED <<fn, fargs, aborted, cacheVars, pureVars, panelVars>>

\* The liquidity-events call for liquidityPools[i] is answered: no events.
LiquidityAnswer(i) ==
  /\ fpc = "liquidity"
  /\ i \in DOMAIN liquidity
  /\ liquidity[i].status = "pending"
  /\ Step(subs, fpc, liquidityPools, [liquidity EXCEPT ![i] = SubFulfilled(<<>>)], errors)
  /\ UNCHANGED <<fn, fargs, aborted, cacheVars, pureVars, panelVars>>

NextBusyWallet ==
  \/ BusyInvoke
  \/ \E q \in {"swaps", "lending", "positions"} : BusySettle(q)
  \/ \E i \in 1..MaxJournalPools : LiquidityAnswer(i)

SpecBusyWallet == Init /\ [][NextBusyWallet]_vars

\* ------------------------------------------------------- pure functions
\* Each pure function of the core is applied once to arguments drawn from a
\* bounded set.
SeqsUpTo(S, n) == UNION { [1..k -> S] : k \in 0..n }

UnchangedByPure == UNCHANGED <<pin, cacheVars, facadeVars, panelVars>>

\* timestamps the indexer may send: missing, empty, unparseable, valid
EventTimestamps ==
  { Undefined, "", "garbage", "1970-01-01T00:00:01.000Z", "1970-01-01T00:00:02Z",
    "1969-12-31T23:59:59.000Z" }

MergeInputs ==
  [f : {"mergeJournalEntries"},
   swaps : SeqsUpTo([id : {Undefined}, pair : {"poolA"}, timestamp : EventTimestamps], MaxEvents),
   lending : { <<>>,
               << [id |-> Undefined, pair |-> Undefined, event_timestamp |-> Undefined] >>,
               << [id |-> "9", pair |-> "poolB", event_timestamp |-> "1970-01-01T00:00:02.000Z"],
                  [id |-> Undefined, pair |-> "poolB", event_timestamp |-> "1970-01-01T00:00:01.000Z"] >> },
   liquidity : { <<>>, << liqEvent("poolC") >>,
                 << [id |-> Undefined, pair |-> [address |-> Undefined],
                     timestamp |-> "1970-01-01T00:00:02Z"] >> }]

MergeInit ==
  /\ CacheInit /\ FacadeInit /\ PanelIdle
  /\ pin \in MergeInputs
  /\ pout = NoOutput

ApplyMerge ==
  /\ pin.f = "mergeJournalEntries"
  /\ ~pout.done
  /\ pout' = Returned(mergeJournalEntries([swaps |-> pin.swaps, lending |-> pin.lending,
                                           liquidity |-> pin.liquidity]))
  /\ UnchangedByPure

SpecMerge == MergeInit /\ [][ApplyMerge]_vars

\* Samples of finite numbers, as toNumber and the sums of the callers give
SampleValues == {0, 3, 10}

Samples == { [i \in DOMAIN s |-> RInt(s[i])] : s \in SeqsUpTo(SampleValues, MaxSample) }

\* the q of toBucket and sizeTier, and the two ends
Quantiles == { R(0, 1), R(1, 5), R(1, 4), R(2, 5), R(1, 2), R(3, 5), R(3, 4), R(4, 5), R(1, 1) }

ProbeValues == { RInt(i) : i \in (0 - 1)..11 }

QuantileInputs == [f : {"quantile"}, values : Samples, q : Quantiles]

BucketInputs == [f : {"toBucket"}, values : Samples, v1 : ProbeValues, v2 : ProbeValues]

QuantileInit ==
  /\ CacheInit /\ FacadeInit /\ PanelIdle
  /\ pin \in QuantileInputs \cup BucketInputs
  /\ pout = NoOutput

ApplyQuantile ==
  /\ pin.f = "quantile"
  /\ ~pout.done
  /\ pout' = Returned(quantile(pin.values, pin.q))
  /\ UnchangedByPure

\* toBucket applied to two values with the same sample
ApplyToBucket ==
  /\ pin.f = "toBucket"
  /\ ~pout.done
  /\ pout' = Returned(<<toBucket(pin.values, pin.v1), toBucket(pin.values, pin.v2)>>)
  /\ UnchangedByPure

NextQuantile == ApplyQuantile \/ ApplyToBucket

SpecQuantile == QuantileInit /\ [][NextQuantile]_vars

\* Pool records of the indexer's /pools list.  The first two are the two
\* records of the specification's example, the next two are the same records
\* with an address.
Reserves(token0, token1) == JObject([token0 |-> token0, token1 |-> token1])

ExamplePools ==
  << [pair_address |-> Undefined, reserves |-> Reserves(JNumber(100), JNumber(50)),
      volume_24h |-> JNumber(1000)],
     [pair_address |-> Undefined, reserves |-> Reserves(JNumber(10), JNumber(5)),
      volume_24h |-> JNumber(10)] >>

AddressedExamplePools ==
  << [pair_address |-> "poolA", reserves |-> Reserves(JNumber(100), JNumber(50)),
      volume_24h |-> JNumber(1000)],
     [pair_address |-> "poolB", reserves |-> Reserves(JNumber(10), JNumber(5)),
      volume_24h |-> JNumber(10)] >>

PoolChoices ==
  { ExamplePools[1], AddressedExamplePools[1], AddressedExamplePools[2],
    [pair_address |-> "", reserves |-> Reserves(JNumber(1), JNumber(1)), volume_24h |-> JNumber(1)],
    [pair_address |-> "poolC", reserves |-> JUndefined,
     volume_24h |-> JObject([token0 |-> JString("7"), total |-> JNumber(3)])],
    [pair_address |-> "poolD", reserves |-> Reserves(JString("7"), JString("abc")),
     volume_24h |-> JUndefined] }

HeatmapInputs ==
  [f : {"buildHeatmap"}, pools : SeqsUpTo(PoolChoices, MaxPools) \cup {ExamplePools}]

HeatmapInit ==
  /\ CacheInit /\ FacadeInit /\ PanelIdle
  /\ pin \in HeatmapInputs
  /\ pout = NoOutput

ApplyHeatmap ==
  /\ pin.f = "buildHeatmap"
  /\ ~pout.done
  /\ pout' = Returned(buildHeatmap(pin.pools))
  /\ UnchangedByPure

SpecHeatmap == HeatmapInit /\ [][ApplyHeatmap]_vars

\* Stress values below, inside, at the label thresholds and above the range
StressValues == { RInt(i) : i \in {0 - 10, 0, 30, 55, 75, 100, 150} } \cup { R(149, 2) }

RiskInputs ==
  [f : {"computeCompositeRiskScore"}, utilizationStress : StressValues,
   debtSkewStress : StressValues, eventMomentumStress : StressValues]

RiskScoreInit ==
  /\ CacheInit /\ FacadeInit /\ PanelIdle
  /\ pin \in RiskInputs
  /\ pout = NoOutput

ApplyRiskScore ==
  /\ pin.f = "computeCompositeRiskScore"
  /\ ~pout.done
  /\ pout' = Returned(computeCompositeRiskScore(
                        [utilizationStress |-> pin.utilizationStress,
                         debtSkewStress |-> pin.debtSkewStress,
                         eventMomentumStress |-> pin.eventMomentumStress]))
  /\ UnchangedByPure

SpecRiskScore == RiskScoreInit /\ [][ApplyRiskScore]_vars

\* Swaps of a /pools/{address}/swaps response: timestamps missing, empty,
\* unparseable or valid, 44, 45, 300 and 301 seconds apart; amounts of
\* either sign.
SwapTimestamps ==
  { Undefined, "garbage", "1970-01-01T00:00:44.000Z", "1970-01-01T00:00:45.000Z",
    "1970-01-01T00:05:45.000Z", "1970-01-01T00:05:46.000Z" }

SwapTapeInputs ==
  [f : {"fetchSwapTape"},
   swaps : SeqsUpTo([id : {Undefined}, timestamp : SwapTimestamps,
                     amount_in : {JNumber(0 - 7), JString("7"), JUndefined}], MaxSwaps)]

SwapTapeInit ==
  /\ CacheInit /\ FacadeInit /\ PanelIdle
  /\ pin \in SwapTapeInputs
  /\ pout = NoOutput

ApplySwapTape ==
  /\ pin.f = "fetchSwapTape"
  /\ ~pout.done
  /\ \E tape \in swapTapes(pin.swaps) : pout' = Returned(tape)
  /\ UnchangedByPure

SpecSwapTape == SwapTapeInit /\ [][ApplySwapTape]_vars

\* ---------------------------------------------------------------- UI panel
\* A panel (PoolPerformanceDashboard) with its effect on
\* [poolAddress, refreshTick, windowHours]: every run of the effect calls the
\* facade with force: refreshTick > 0.  PositionJournal, BorrowRiskPanel,
\* SwapTape and LiquidityHeatmap have an effect of the same shape.
PanelPools == {"poolA", "poolB", "poolC"}
PanelWindows == {1, 24, 168}

\* the options of the effect's load()
Load(trigger, tick) == [trigger |-> trigger, force |-> tick > 0]

\* One run of the effect that got past `if (!poolAddress)`: its closure
\* variable mounted, its controller's signal, how the facade promise settled
\* and as which of the settlements.
NewLoad == [mounted |-> TRUE, aborted |-> FALSE, outcome |-> "pending", order |-> 0]

\* return () => { mounted = false; controller.abort() } of the run whose
\* cleanup has not run yet
Cleanup(ls) ==
  [i \in DOMAIN ls |-> IF ls[i].mounted THEN [ls[i] EXCEPT !.mounted = FALSE, !.aborted = TRUE]
                       ELSE ls[i]]

\* The effect body up to the await inside load()
RunEffect(pool, tick, trigger, st, ls) ==
  IF pool.poolAddress = ""
  THEN [panelState |-> [st EXCEPT !.stats = 0, !.error = "Missing pool address"],
        loads |-> ls, lastLoad |-> lastLoad]
  ELSE [panelState |-> [st EXCEPT !.loading = TRUE, !.error = Undefined],
        loads |-> Append(ls, NewLoad), lastLoad |-> Load(trigger, tick)]

Effect(pool, tick, trigger, st, ls) ==
  LET after == RunEffect(pool, tick, trigger, st, ls)
  IN /\ panelState' = after.panelState
     /\ loads' = after.loads
     /\ lastLoad' = after.lastLoad

\* if (!mounted) return ... finally { if (mounted) setLoading(false) }
stillMountedAlways(load) == TRUE

stillMounted(load) == load.mounted

UnchangedByPanel == UNCHANGED <<cacheVars, facadeVars, pureVars>>

PanelInit ==
  /\ CacheInit /\ FacadeInit /\ PureIdle
  /\ panelMounted = FALSE
  /\ panelPool \in [poolAddress : PanelPools, windowHours : PanelWindows]
  /\ refreshTick = 0
  /\ lastLoad = NoLoad
  /\ panelState = FreshState
  /\ loads = <<>>

\* first render: useState defaults, then the effect runs
Mount ==
  /\ ~panelMounted
  /\ Len(loads) < MaxLoads
  /\ panelMounted' = TRUE
  /\ refreshTick' = 0
  /\ Effect(panelPool, 0, "mount", FreshState, loads)
  /\ UNCHANGED panelPool
  /\ UnchangedByPanel

Unmount ==
  /\ panelMounted
  /\ panelMounted' = FALSE
  /\ loads' = Cleanup(loads)
  /\ UNCHANGED <<panelPool, refreshTick, lastLoad, panelState>>
  /\ UnchangedByPanel

\* the parent passes another poolAddress, possibly none
ChangePoolAddress(address) ==
  /\ panelMounted
  /\ Len(loads) < MaxLoads
  /\ address # panelPool.poolAddress
  /\ panelPool' = [panelPool EXCEPT !.poolAddress = address]
  /\ Effect([panelPool EXCEPT !.poolAddress = address], refreshTick, "poolAddress",
            panelState, Cleanup(loads))
  /\ UNCHANGED <<panelMounted, refreshTick>>
  /\ UnchangedByPanel

\* the user picks another time window
ChangeWindow(hours) ==
  /\ panelMounted
  /\ Len(loads) < MaxLoads
  /\ hours # panelPool.windowHours
  /\ panelPool' = [panelPool EXCEPT !.windowHours = hours]
  /\ Effect([panelPool EXCEPT !.windowHours = hours], refreshTick, "windowHours",
            panelState, Cleanup(loads))
  /\ UNCHANGED <<panelMounted, refreshTick>>
  /\ UnchangedByPanel

\* onClick={() => setRefreshTick((current) => current + 1)} of the button
\* that is disabled={loading}
Refresh ==
  /\ panelMounted
  /\ Len(loads) < MaxLoads
  /\ ~panelState.loading
  /\ refreshTick < MaxRefresh
  /\ refreshTick' = refreshTick + 1
  /\ Effect(panelPool, refreshTick + 1, "refresh", panelState, Cleanup(loads))
  /\ UNCHANGED <<panelMounted, panelPool>>
  /\ UnchangedByPanel

\* The facade promise awaited by load() number l settles and the rest of
\* load() runs.  An AbortError needs the controller of the run to be aborted;
\* a payload or a failure may arrive in any case.
LoadSettles(l) ==
  /\ l \in DOMAIN loads
  /\ loads[l].outcome = "pending"
  /\ \E outcome \in {"fulfilled", "rejected"} \cup (IF loads[l].aborted THEN {"AbortError"} ELSE {}) :
       /\ loads' = [loads EXCEPT ![l].outcome = outcome,
                                 ![l].order = 1 + Cardinality({ i \in DOMAIN loads :
                                                                  loads[i].outcome # "pending" })]
       /\ panelState' =
            IF ~stillMounted(loads[l]) THEN panelState
            ELSE CASE outcome = "fulfilled" -> [panelState EXCEPT !.stats = l, !.loading = FALSE]
                   [] outcome = "rejected" ->
                        [panelState EXCEPT !.error = "Unable to load", !.loading = FALSE]
                   [] outcome = "AbortError" -> [panelState EXCEPT !.loading = FALSE]
  /\ UNCHANGED <<panelMounted, panelPool, refreshTick, lastLoad>>
  /\ UnchangedByPanel

NextPanel ==
  \/ Mount
  \/ Unmount
  \/ \E address \in PanelPools \cup {""} : ChangePoolAddress(address)
  \/ \E hours \in PanelWindows : ChangeWindow(hours)
  \/ Refresh
  \/ \E l \in 1..MaxLoads : LoadSettles(l)

SpecPanel == PanelInit /\ [][NextPanel]_vars

\* ================================================================== claims
\* Helpers of the statements below.  They speak about the caller's arguments,
\* not about the url the code derives from them.
ParamSet(entries) == { entries[i] : i \in { j \in DOMAIN entries : entries[j][2] # Undefined } }

\* key is the cache key of a call for (path, params), whatever the order of params
SameQuery(key, path, params) == key.path = path /\ ParamSet(key.query) = ParamSet(params)

LastCall == calls[Len(calls)]

LastTtl == IF last.options.ttlMs = <<>> THEN 60000 ELSE last.options.ttlMs[1]

Awaiting(c) == calls[c].pc \in {"own", "shared"}

\* C1: a call without force for a path and parameter set (in any order) whose
\* cached entry is younger than the TTL returns the cached payload and issues
\* or awaits no request, with or without a cancellation signal.
C1_CachedCallIssuesNoRequest ==
  (last # NoCall /\ ~last.options.force) =>
    \A k \in DOMAIN responseCache :
      ( /\ SameQuery(k, last.path, last.params)
        /\ responseCache[k] # NoEntry
        /\ now - responseCache[k].timestamp < LastTtl )
      => /\ LastCall.pc = "done"
         /\ LastCall.req = NoRequest
         /\ LastCall.result = Fulfilled(responseCache[k].data)
         /\ \A r \in 1..Len(requests) : \E c \in 1..(Len(calls) - 1) : calls[c].req = r

\* C1 witness: after one network call, a later call carrying a signal, with
\* its parameters in non-canonical order, was served from the cache at a later time.
C1_Witness ==
  /\ last # NoCall
  /\ last.options.signal /\ ~last.options.force
  /\ last.params # toQueryKey(last.params)
  /\ Len(requests) = 1 /\ Len(calls) >= 2
  /\ LastCall.req = NoRequest
  /\ LastCall.result = Fulfilled(Classify(requests[1].response).value)
  /\ now > responseCache[LastCall.key].timestamp

\* C2: a signal-less call made for a key while a signal-less call for that key
\* has its request outstanding, and not served from the cache, issues no
\* request of its own; it awaits that request, and every call resolves to the
\* outcome of the request it awaits.
C2_ConcurrentCallsShareOneRequest ==
  /\ (last # NoCall /\ ~last.options.signal /\ LastCall.req # NoRequest) =>
       \A c \in 1..(Len(calls) - 1) :
         ( /\ ~calls[c].signal
           /\ calls[c].key = LastCall.key
           /\ Awaiting(c)
           /\ requests[calls[c].req].state = "pending" )
         => /\ LastCall.req = calls[c].req
            /\ LastCall.pc = "shared"
  /\ \A c \in 1..Len(calls) :
       (calls[c].pc = "done" /\ calls[c].req # NoRequest) =>
          calls[c].result = Outcome(requests[calls[c].req])
  /\ \A c, d \in 1..Len(calls) :
       (calls[c].req = calls[d].req /\ calls[c].req # NoRequest
          /\ calls[c].pc = "done" /\ calls[d].pc = "done")
       => calls[c].result = calls[d].result

\* C2 witness: two signal-less calls for one key resolved to the payload of
\* the single request that was issued.
C2_Witness ==
  /\ Len(calls) = 2 /\ Len(requests) = 1
  /\ \A c \in 1..2 : /\ ~calls[c].signal
                     /\ calls[c].req = 1
                     /\ calls[c].pc = "done"
                     /\ calls[c].result.status = "fulfilled"

\* C3 (as claimed): every call with force:true issues a new network request,
\* whatever the cache and the outstanding requests.
C3_ForceAlwaysIssues ==
  (last # NoCall /\ last.options.force) =>
     /\ LastCall.pc = "own"
     /\ LastCall.req = Len(requests)

\* C3 (amended): a call with force:true is never served from the cache; it
\* issues a new request unless it carries no signal and a signal-less call for
\* its key still awaits the request it issued, in which case it awaits that
\* request.
C3_ForceBypassesCache ==
  (last # NoCall /\ last.options.force) =>
     LET issuers == { c \in 1..(Len(calls) - 1) :
                        /\ ~calls[c].signal
                        /\ calls[c].key = LastCall.key
                        /\ calls[c].pc = "own" }
     IN IF ~last.options.signal /\ issuers # {}
        THEN /\ LastCall.pc = "shared"
             /\ \E c \in issuers : LastCall.req = calls[c].req
        ELSE /\ LastCall.pc = "own"
             /\ LastCall.req = Len(requests)
             /\ \A c \in 1..(Len(calls) - 1) : calls[c].req # LastCall.req

\* C3 witness: a forced call issued a second request although the entry of
\* its key was fresh.
C3_Witness ==
  /\ last # NoCall /\ last.options.force
  /\ responseCache[LastCall.key] # NoEntry
  /\ now - responseCache[LastCall.key].timestamp < LastTtl
  /\ LastCall.pc = "own"
  /\ LastCall.req = 2

\* C4: a call with a signal that is not served from the cache has a request of
\* its own: no other call awaits it, it is in no in-flight entry, and no
\* signal-less call fails with its cancellation.
C4_SignalCallsAreIsolated ==
  /\ \A c \in 1..Len(calls) :
       (calls[c].signal /\ calls[c].req # NoRequest) =>
          /\ \A d \in 1..Len(calls) : d # c => calls[d].req # calls[c].req
          /\ \A k \in DOMAIN inflightRequests : inflightRequests[k] # calls[c].req
          /\ requests[calls[c].req].key = calls[c].key
  /\ \A c \in 1..Len(calls) :
       (~calls[c].signal /\ calls[c].pc = "done") => calls[c].result # AbortError

\* C4 witness: a call with a signal was cancelled while a signal-less call for
\* the same key, outstanding at the same time, got its payload.
C4_Witness ==
  \E c, d \in 1..Len(calls) :
    /\ calls[c].signal /\ ~calls[d].signal
    /\ calls[c].key = calls[d].key
    /\ calls[c].req # NoRequest /\ calls[d].req # NoRequest
    /\ calls[c].result = AbortError
    /\ Awaiting(d)
    /\ inflightRequests[calls[d].key] = calls[d].req

\* C5: the in-flight map has an entry for a key exactly while a signal-less
\* call that issued a request for that key has not yet resumed from awaiting
\* it (the promise is outstanding for its creator); the entry is that request;
\* once every call has settled the map is empty.
C5_InflightIffOutstanding ==
  /\ \A k \in DOMAIN inflightRequests :
       inflightRequests[k] # NoRequest <=>
         \E c \in 1..Len(calls) :
           /\ ~calls[c].signal /\ calls[c].pc = "own" /\ calls[c].key = k
           /\ calls[c].req = inflightRequests[k]
  /\ \A c \in 1..Len(calls) :
       (~calls[c].signal /\ calls[c].pc = "own") => inflightRequests[calls[c].key] = calls[c].req
  /\ (\A c \in 1..Len(calls) : calls[c].pc = "done") =>
       \A k \in DOMAIN inflightRequests : inflightRequests[k] = NoRequest

\* C5 witness: a signal-less request failed, its caller received the error and
\* the entry is gone.
C5_Witness ==
  \E c \in 1..Len(calls) :
    /\ ~calls[c].signal /\ calls[c].req # NoRequest
    /\ calls[c].pc = "done" /\ calls[c].result.status = "rejected"
    /\ \A d \in 1..Len(calls) : calls[d].pc = "done"
    /\ inflightRequests[calls[c].key] = NoRequest

\* The failures of a response that reached the client: non-2xx, success:false,
\* missing data.
FailedResponse(response) ==
  ~response.ok \/ response.success = "false" \/ response.data = Undefined

\* C6: a cancelled or failed call never writes the response cache: the only
\* steps that change the cache are completions of a request with a successful
\* response, which write that request's key; and a cancellation reaches the
\* caller as AbortError, which no failure produces.
C6_FailedCallLeavesCache ==
  /\ [][ responseCache' # responseCache =>
           \E r \in 1..Len(requests) :
             /\ requests[r].state = "pending"
             /\ requests'[r].state = "settled"
             /\ ~FailedResponse(requests'[r].response)
             /\ responseCache' = [responseCache EXCEPT ![requests[r].key] =
                                    [timestamp |-> now, data |-> requests'[r].response.data]]
       ]_vars
  /\ [](\A c \in 1..Len(calls) :
          (calls[c].pc = "done" /\ calls[c].req # NoRequest) =>
             /\ requests[calls[c].req].state = "aborted" =>
                  (calls[c].result.status = "rejected" /\ calls[c].result.name = "AbortError")
             /\ (requests[calls[c].req].state = "settled"
                   /\ FailedResponse(requests[calls[c].req].response)) =>
                  (calls[c].result.status = "rejected" /\ calls[c].result.name = "Error"))

\* C6 witness: a call that replaced nothing: it was cancelled, and the entry of
\* its key, written at an earlier time, is still there.
C6_Witness ==
  \E c \in 1..Len(calls) :
    /\ calls[c].pc = "done"
    /\ calls[c].result = AbortError
    /\ responseCache[calls[c].key] # NoEntry
    /\ responseCache[calls[c].key].timestamp < now

\* C8: outcome of a call that reached the network, in this order: non-2xx ->
\* error carrying the status; success:false -> error with the server's message
\* (the generic request-failed message when the server gave none); no data ->
\* malformed-response error; otherwise the data field is returned.
C8_ClassificationOrder ==
  \A c \in 1..Len(calls) :
    (calls[c].pc = "done" /\ calls[c].req # NoRequest
       /\ requests[calls[c].req].state = "settled") =>
      LET response == requests[calls[c].req].response
          result == calls[c].result
      IN IF ~response.ok
         THEN result = Rejected("Error", "Indexer request failed (" \o response.status \o ")")
         ELSE IF response.success = "false"
         THEN /\ result.status = "rejected" /\ result.name = "Error"
              /\ result.message = IF response.error \notin {Undefined, ""}
                                  THEN response.error
                                  ELSE "Indexer request failed: url"
         ELSE IF response.data = Undefined
         THEN result = Rejected("Error", "Indexer response missing data: url")
         ELSE result = Fulfilled(response.data)

\* C8 witness: a non-2xx response that also carries success:false, an error
\* text and data failed its call with the HTTP-status error.
C8_Witness ==
  \E c \in 1..Len(calls) :
    /\ calls[c].pc = "done" /\ calls[c].req # NoRequest
    /\ requests[calls[c].req].state = "settled"
    /\ ~requests[calls[c].req].response.ok
    /\ requests[calls[c].req].response.success = "false"
    /\ requests[calls[c].req].response.data # Undefined
    /\ calls[c].result = Rejected("Error", "Indexer request failed (500)")

\* C9 (as claimed): a response whose envelope has a non-empty error field
\* fails its call, also when it is 2xx with data, and is not cached.
C9_ErrorFieldIsFailure ==
  \A c \in 1..Len(calls) :
    (calls[c].pc = "done" /\ calls[c].req # NoRequest
       /\ requests[calls[c].req].state = "settled"
       /\ requests[calls[c].req].response.error \notin {Undefined, ""}) =>
      /\ calls[c].result.status = "rejected"
      /\ (Len(requests) = 1 => responseCache[calls[c].key] = NoEntry)

\* Helpers for the wallet journal statements.
RejectedCount(L) == Cardinality({ i \in DOMAIN L : L[i].status = "rejected" })

JournalFailures ==
  Cardinality({ q \in FirstBatch("journal", fargs) : subs[q].status = "rejected" })
  + RejectedCount(liquidity)

EntriesOfType(entries, type) == { i \in DOMAIN entries : entries[i].type = type }

RECURSIVE EventCount(_)
EventCount(L) ==
  IF L = <<>> THEN 0
  ELSE (IF Head(L).status = "fulfilled" THEN Len(Head(L).value) ELSE 0) + EventCount(Tail(L))

HasEntry(entries, type, pool) ==
  \E i \in DOMAIN entries : entries[i].type = type /\ entries[i].poolAddress = pool

PoolOrUnknown(pair) == IF pair = Undefined THEN "unknown-pool" ELSE pair

\* C7 (as claimed): once the caller's signal has fired while a facade function
\* was waiting on its fetches, the function ends by rejecting with the
\* AbortError, and no message of the cancellation is in its error list.
C7_CancellationPropagates ==
  (aborted /\ fpc = "done") =>
     /\ fresult.status = "rejected"
     /\ fresult.name = "AbortError"
     /\ \A i \in DOMAIN errors : errors[i] # SubAbortError.message

\* C10: fetchWalletJournal never rejects; when it returns, its errors list has
\* exactly one message per failed sub-query (swaps, lending, positions, each
\* per-pool liquidity query), the failed sub-queries contribute no entry, and
\* every event of a sub-query that succeeded is among the entries.
C10_JournalCollectsFailures ==
  fn = "journal" =>
     /\ fresult.status # "rejected"
     /\ fpc = "done" =>
          LET entries == fresult.value.entries
          IN /\ fresult.status = "fulfilled"
             /\ Len(fresult.value.errors) = JournalFailures
             /\ Cardinality(EntriesOfType(entries, "swap")) = Len(subs["swaps"].value)
             /\ Cardinality(EntriesOfType(entries, "lending")) = Len(subs["lending"].value)
             /\ Cardinality(EntriesOfType(entries, "liquidity")) = EventCount(liquidity)
             /\ \A k \in DOMAIN subs["swaps"].value :
                  HasEntry(entries, "swap", PoolOrUnknown(subs["swaps"].value[k].pair))
             /\ \A k \in DOMAIN subs["lending"].value :
                  HasEntry(entries, "lending", PoolOrUnknown(subs["lending"].value[k].pair))
             /\ \A i \in DOMAIN liquidity :
                  liquidity[i].status = "fulfilled" /\ liquidity[i].value # <<>>
                    => HasEntry(entries, "liquidity", liquidityPools[i])

\* A journal that returned although a primary query and a liquidity query
\* failed, with the events of the queries that succeeded.
C10_Witness ==
  /\ fn = "journal"
  /\ fpc = "done"
  /\ ~aborted
  /\ subs["lending"].status = "rejected"
  /\ Len(subs["swaps"].value) = 2
  /\ \E i \in DOMAIN liquidity : liquidity[i].status = "rejected"
  /\ \E i \in DOMAIN liquidity : liquidity[i].status = "fulfilled" /\ liquidity[i].value # <<>>
  /\ Len(fresult.value.errors) = 2
  /\ Len(fresult.value.entries) = 3

\* C11: fetchPoolPerformance rejects exactly when its price-chart call
\* rejected, and then with that call's error; a rejected volume, fees or stats
\* call leaves volume0/volume1 = 0, fees0/fees1 = 0 or apr = null in the result.
C11_PerformanceFailsOnlyWithChart ==
  fn = "performance" =>
     /\ fpc # "done" => fresult.status = "pending"
     /\ fpc = "done" =>
          /\ fresult.status = "rejected" <=> subs["chart"].status = "rejected"
          /\ fresult.status = "rejected" =>
               fresult.name = subs["chart"].name /\ fresult.message = subs["chart"].message
          /\ fresult.status = "fulfilled" =>
               /\ subs["volume"].status = "rejected" =>
                    fresult.value.volume0 = 0 /\ fresult.value.volume1 = 0
               /\ subs["fees"].status = "rejected" =>
                    fresult.value.fees0 = 0 /\ fresult.value.fees1 = 0
               /\ subs["stats"].status = "rejected" => fresult.value.apr = <<>>
               /\ subs["volume"].status = "fulfilled" => fresult.value.volume0 = 5
               /\ subs["stats"].status = "fulfilled" => fresult.value.apr = <<12>>

\* A performance result returned although the volume and stats calls failed.
C11_Witness ==
  /\ fn = "performance"
  /\ fpc = "done"
  /\ ~aborted
  /\ fresult.status = "fulfilled"
  /\ subs["volume"].status = "rejected"
  /\ subs["stats"].status = "rejected"
  /\ subs["fees"].status = "fulfilled"
  /\ fresult.value.volume0 = 0
  /\ fresult.value.fees1 = 2
  /\ fresult.value.apr = <<>>

\* C12 (as claimed): fetchPoolRisk fails only when its positions or its
\* pool-info call failed; a failure of the lending-events call alone leaves a
\* snapshot.
C12_RiskSurvivesLendingFailure ==
  (fn = "risk" /\ fpc = "done" /\ fresult.status = "rejected") =>
     subs["positions"].status = "rejected" \/ subs["poolInfo"].status = "rejected"

\* C13: mergeJournalEntries returns one entry per input event, ordered by
\* non-increasing timestamp; three empty lists give the empty list; an event
\* whose timestamp is missing or unparseable gets the epoch timestamp and
\* stands behind every entry dated after the epoch.
C13_MergeSortedComplete ==
  (pin.f = "mergeJournalEntries" /\ pout.done) =>
     LET out == pout.value
     IN /\ Len(out) = Len(pin.swaps) + Len(pin.lending) + Len(pin.liquidity)
        /\ \A i, j \in DOMAIN out :
              i < j => getTime(out[i].timestamp) >= getTime(out[j].timestamp)
        /\ (pin.swaps = <<>> /\ pin.lending = <<>> /\ pin.liquidity = <<>>) => out = <<>>
        /\ \A k \in DOMAIN pin.swaps :
              \E i \in DOMAIN out :
                 /\ out[i].id = "swap-" \o ToString(k - 1)
                 /\ out[i].timestamp =
                      IF pin.swaps[k].timestamp \in ValidDateStrings
                        THEN toISOString(getTime(pin.swaps[k].timestamp)) ELSE EpochIso
                 /\ pin.swaps[k].timestamp \notin ValidDateStrings =>
                      \A j \in DOMAIN out : getTime(out[j].timestamp) > 0 => j < i

\* A merge of two swaps, the first without a usable timestamp, with later
\* lending and liquidity events: the malformed swap is not at the top.
C13_Witness ==
  /\ pin.f = "mergeJournalEntries"
  /\ pout.done
  /\ Len(pin.swaps) = 2
  /\ pin.swaps[1].timestamp = "garbage"
  /\ pin.swaps[2].timestamp = "1970-01-01T00:00:01.000Z"
  /\ Len(pin.lending) = 2
  /\ Len(pout.value) = 5
  /\ pout.value[1].id = "lending-9"
  /\ pout.value[4].id = "swap-0"

\* Helpers: the k-th smallest (k = 1..Len(s)) of a sample of integers.
IntsOf(values) == [i \in DOMAIN values |-> values[i].n]

OrderStat(s, k) ==
  CHOOSE v \in { s[i] : i \in DOMAIN s } :
    /\ Cardinality({ i \in DOMAIN s : s[i] < v }) < k
    /\ Cardinality({ i \in DOMAIN s : s[i] <= v }) >= k

\* C16: for a non-empty sample in any order quantile(s, 0) is its minimum and
\* quantile(s, 1) its maximum; quantile(s, q) lies between the order
\* statistics around position (n-1)*q and is their linear interpolation;
\* quantile([], q) = 0.
C16_QuantileInterpolates ==
  (pin.f = "quantile" /\ pout.done) =>
     LET s == IntsOf(pin.values)
         n == Len(s)
         a == pin.q.n
         b == pin.q.d
         lower == ((n - 1) * a) \div b
         r == ((n - 1) * a) % b
         lo == OrderStat(s, lower + 1)
         hi == IF r = 0 THEN lo ELSE OrderStat(s, lower + 2)
         out == pout.value
     IN IF n = 0 THEN out = RInt(0)
        ELSE /\ a = 0 => \A i \in DOMAIN s : out = RInt(s[i]) \/ RLt(out, RInt(s[i]))
             /\ a = 0 => \E i \in DOMAIN s : out = RInt(s[i])
             /\ a = b => \A i \in DOMAIN s : RLe(RInt(s[i]), out)
             /\ a = b => \E i \in DOMAIN s : out = RInt(s[i])
             /\ RLe(RInt(lo), out) /\ RLe(out, RInt(hi))
             /\ out.n * b = (lo * b + r * (hi - lo)) * out.d

\* The 20th percentile of the unsorted sample 10, 0, 3 is 1.2.
C16_Witness ==
  /\ pin.f = "quantile"
  /\ pout.done
  /\ pin.values = <<RInt(10), RInt(0), RInt(3)>>
  /\ pin.q = R(2, 5)
  /\ pout.value = R(12, 5)

\* C17: for a fixed sample toBucket is monotonic non-decreasing in value, its
\* result is one of 0..4, value <= p20 gives 0, ..., value <= p80 gives at
\* most 3, value > p80 gives 4, and for an empty sample it is always 0.
C17_BucketMonotone ==
  (pin.f = "toBucket" /\ pout.done) =>
     LET b1 == pout.value[1]
         b2 == pout.value[2]
     IN /\ b1 \in 0..4 /\ b2 \in 0..4
        /\ RLe(pin.v1, pin.v2) => b1 <= b2
        /\ pin.values = <<>> => b1 = 0
        /\ pin.values # <<>> =>
             \A k \in 0..3 : b1 <= k <=> RLe(pin.v1, quantile(pin.values, R(k + 1, 5)))

\* Sample 0, 10 has the percentiles 2, 4, 6, 8: the value 4 is the inclusive
\* upper end of bucket 1, the value 9 is in bucket 4.
C17_Witness ==
  /\ pin.f = "toBucket"
  /\ pout.done
  /\ pin.values = <<RInt(10), RInt(0)>>
  /\ pin.v1 = RInt(4)
  /\ pin.v2 = RInt(9)
  /\ pout.value = <<1, 4>>

RECURSIVE SumCounts(_)
SumCounts(cells) ==
  IF cells = <<>> THEN 0 ELSE Head(cells).poolCount + SumCounts(Tail(cells))

\* C14: buildHeatmap returns exactly 25 cells, one per (x, y) in 0..4 x 0..4,
\* empty ones included; the poolCounts sum to the number of input pools with a
\* non-empty address; each intensity is poolCount / max(1, largest poolCount)
\* and so lies in [0,1].
C14_HeatmapGrid ==
  (pin.f = "buildHeatmap" /\ pout.done) =>
     LET cells == pout.value.cells
         largest == CHOOSE c \in { cells[k].poolCount : k \in DOMAIN cells } :
                      \A k \in DOMAIN cells : cells[k].poolCount <= c
         divisor == IF largest > 1 THEN largest ELSE 1
     IN /\ Len(cells) = 25
        /\ \A x \in 0..4, y \in 0..4 :
              Cardinality({ k \in DOMAIN cells : cells[k].x = x /\ cells[k].y = y }) = 1
        /\ SumCounts(cells) =
              Cardinality({ i \in DOMAIN pin.pools : pin.pools[i].pair_address \notin {Undefined, ""} })
        /\ \A k \in DOMAIN cells :
              /\ cells[k].intensity.n * divisor = cells[k].poolCount * cells[k].intensity.d
              /\ RLe(RInt(0), cells[k].intensity) /\ RLe(cells[k].intensity, RInt(1))
              /\ cells[k].poolCount = Len(cells[k].pools)

\* Three pools, one without address; two of the others share a cell, so the
\* third cell has intensity 1/2.
C14_Witness ==
  /\ pin.f = "buildHeatmap"
  /\ pout.done
  /\ Len(pin.pools) = 3
  /\ \E i \in DOMAIN pin.pools : pin.pools[i].pair_address = ""
  /\ Len(pout.value.points) = 2
  /\ \E k \in 1..25 : pout.value.cells[k].poolCount = 2
  /\ \E k \in 1..25 : pout.value.cells[k].poolCount = 0

\* C15 (as stated): for the two example records, given by exactly the fields
\* reserves and volume_24h, buildHeatmap returns two points, the first pool's
\* liquidity bucket is >= the second's and points[0] has the higher score.
C15_ExampleAsGiven ==
  (pin.f = "buildHeatmap" /\ pin.pools = ExamplePools /\ pout.done) =>
     /\ Len(pout.value.points) = 2
     /\ RLt(pout.value.points[2].compositeScore, pout.value.points[1].compositeScore)

\* C15 (amended): for the two example records, each with a non-empty
\* pair_address in addition, buildHeatmap returns two points, the first pool's
\* liquidity bucket is >= the second's and
\* points[0].compositeScore > points[1].compositeScore.
C15_ExampleWithAddresses ==
  (pin.f = "buildHeatmap" /\ pin.pools = AddressedExamplePools /\ pout.done) =>
     LET points == pout.value.points
     IN /\ Len(points) = 2
        /\ \E i, j \in DOMAIN points :
              /\ points[i].poolAddress = "poolA"
              /\ points[j].poolAddress = "poolB"
              /\ points[i].liquidityBucket >= points[j].liquidityBucket
        /\ RLt(points[2].compositeScore, points[1].compositeScore)

C15_Witness ==
  /\ pin.f = "buildHeatmap"
  /\ pin.pools = AddressedExamplePools
  /\ pout.done
  /\ pout.value.points[1].poolAddress = "poolA"
  /\ pout.value.points[1].liquidityBucket = 4
  /\ pout.value.points[2].liquidityBucket = 0

\* a stress value cut to [0,100], as a fraction
Cut(v) == IF v.n < 0 THEN RInt(0) ELSE IF v.n > 100 * v.d THEN RInt(100) ELSE v

\* C18: computeCompositeRiskScore clamps each input to [0,100] on its own,
\* returns score = clamp(0.45*utilization + 0.35*skew + 0.20*momentum, 0, 100)
\* and labels it Critical from 75, High from 55, Moderate from 30, else Low;
\* the score is in [0,100]; (100,100,100) gives 100 and Critical, (0,0,0)
\* gives 0 and Low.
C18_RiskScore ==
  (pin.f = "computeCompositeRiskScore" /\ pout.done) =>
     LET u == Cut(pin.utilizationStress)
         k == Cut(pin.debtSkewStress)
         m == Cut(pin.eventMomentumStress)
         score == pout.value.score
         label == pout.value.label
         \* 100 * (0.45 u + 0.35 k + 0.20 m) over the common denominator
         weighted == 45 * u.n * k.d * m.d + 35 * k.n * u.d * m.d + 20 * m.n * u.d * k.d
     IN /\ score.n * 100 * u.d * k.d * m.d = weighted * score.d
        /\ RLe(RInt(0), score) /\ RLe(score, RInt(100))
        /\ label = "Critical" <=> score.n >= 75 * score.d
        /\ label = "High" <=> (score.n >= 55 * score.d /\ score.n < 75 * score.d)
        /\ label = "Moderate" <=> (score.n >= 30 * score.d /\ score.n < 55 * score.d)
        /\ label = "Low" <=> score.n < 30 * score.d
        /\ (pin.utilizationStress = RInt(100) /\ pin.debtSkewStress = RInt(100)
              /\ pin.eventMomentumStress = RInt(100))
             => score = RInt(100) /\ label = "Critical"
        /\ (pin.utilizationStress = RInt(0) /\ pin.debtSkewStress = RInt(0)
              /\ pin.eventMomentumStress = RInt(0))
             => score = RInt(0) /\ label = "Low"

\* Utilization above the range and skew below it, momentum 55: the score is
\* 0.45*100 + 0.35*0 + 0.2*55 = 56, High.
C18_Witness ==
  /\ pin.f = "computeCompositeRiskScore"
  /\ pout.done
  /\ pin.utilizationStress = RInt(150)
  /\ pin.debtSkewStress = RInt(0 - 10)
  /\ pin.eventMomentumStress = RInt(55)
  /\ pout.value.score = RInt(56)
  /\ pout.value.label = "High"

InPercentRange(v) == RLe(RInt(0), v) /\ RLe(v, RInt(100))

\* C19: every snapshot fetchPoolRisk returns has utilizationPct,
\* borrowPressurePct, debtSkewPct, the four mix percentages, eventMomentum and
\* riskScore within [0,100]; eventMomentum is 50 when no wallet is given or
\* the wallet's events carry no borrow-like or repay-like signal.
C19_SnapshotInRange ==
  (fn = "risk" /\ fpc = "done" /\ fresult.status = "fulfilled") =>
     LET snapshot == fresult.value
     IN /\ InPercentRange(snapshot.utilizationPct)
        /\ InPercentRange(snapshot.borrowPressurePct)
        /\ InPercentRange(snapshot.debtSkewPct)
        /\ InPercentRange(snapshot.collateralMixToken0Pct)
        /\ InPercentRange(snapshot.collateralMixToken1Pct)
        /\ InPercentRange(snapshot.debtMixToken0Pct)
        /\ InPercentRange(snapshot.debtMixToken1Pct)
        /\ InPercentRange(snapshot.eventMomentum)
        /\ InPercentRange(snapshot.riskScore)
        /\ ~fargs.wallet => snapshot.eventMomentum = RInt(50)
        /\ subs["lending"].value \in { <<>>, <<quietEvent>> } => snapshot.eventMomentum = RInt(50)

\* A snapshot for a wallet with two borrow signals and one repay signal on a
\* pool whose debt exceeds its reserves and whose collateral sums are of
\* opposite sign: utilization and the token1 collateral share are cut to 100.
C19_Witness ==
  /\ fn = "risk"
  /\ fpc = "done"
  /\ fargs.wallet
  /\ fresult.status = "fulfilled"
  /\ subs["positions"].value = <<positionB, positionC>>
  /\ subs["lending"].value = <<borrowEvent, repayEvent, borrowEvent>>
  /\ fresult.value.utilizationPct = RInt(100)
  /\ fresult.value.collateralMixToken1Pct = RInt(100)
  /\ fresult.value.collateralMixToken0Pct = RInt(0)
  /\ fresult.value.eventMomentum = R(200, 3)

\* C20 (as claimed): a panel passes force:true only for a load triggered by a
\* manual refresh; a load triggered by mounting or by a change of pool
\* address or time window is issued without force, also after an earlier
\* Refresh.
C20_ForceOnlyOnRefresh ==
  lastLoad.force => lastLoad.trigger = "refresh"

\* Requests issued for signal-less callers under key k whose fetch is pending
SharedOutstanding(k) ==
  { r \in 1..Len(requests) :
      requests[r].key = k /\ ~requests[r].signal /\ requests[r].state = "pending" }

\* C25: at any time at most one request issued for signal-less callers is
\* outstanding per cache key; a signal-less call, forced or not, that is not
\* served from the cache while such a request is outstanding awaits that
\* request and issues none.
C25_OneSharedRequestPerKey ==
  /\ \A k \in DOMAIN inflightRequests : Cardinality(SharedOutstanding(k)) <= 1
  /\ (last # NoCall /\ ~last.options.signal /\ LastCall.req # NoRequest) =>
       \A r \in SharedOutstanding(LastCall.key) :
         (\E c \in 1..(Len(calls) - 1) : calls[c].req = r) =>
            /\ LastCall.pc = "shared"
            /\ LastCall.req = r
            /\ \A q \in 1..Len(requests) : \E c \in 1..(Len(calls) - 1) : calls[c].req = q

\* C25 witness: three signal-less callers of one key, the later two with
\* force, all await the one request that is outstanding.
C25_Witness ==
  /\ Len(calls) = 3
  /\ Len(requests) = 1
  /\ requests[1].state = "pending"
  /\ last # NoCall /\ last.options.force
  /\ \A c \in 1..3 : ~calls[c].signal /\ calls[c].req = 1
  /\ calls[1].pc = "own" /\ calls[2].pc = "shared" /\ calls[3].pc = "shared"

\* The response of request r reached the client and was classified a failure
FailedRequest(r) ==
  requests[r].state = "settled" /\ Classify(requests[r].response).status = "rejected"

\* C26: a call issues at most one request and never retries: requests are
\* only issued by the step that starts a call, one per call; every call that
\* awaited a request that failed, its issuer and its joiners, fails with the
\* error of that request; and a signal-less call made for a key once every
\* earlier signal-less issuer for that key has settled, and not served from
\* the cache, issues a request of its own.
C26_NoRetryFreshAfterFailure ==
  /\ [][ requests' # requests =>
           \/ /\ Len(requests') = Len(requests)
              /\ Len(calls') = Len(calls)
           \/ /\ Len(requests') = Len(requests) + 1
              /\ Len(calls') = Len(calls) + 1
              /\ calls'[Len(calls')].req = Len(requests')
       ]_vars
  /\ [][ \A c \in 1..Len(calls) :
           (calls[c].pc # "done" /\ calls'[c].pc = "done") => requests' = requests ]_vars
  /\ [](\A c \in 1..Len(calls) :
          (calls[c].pc = "done" /\ calls[c].req # NoRequest /\ FailedRequest(calls[c].req)) =>
             /\ calls[c].result = Classify(requests[calls[c].req].response)
             /\ calls[c].result.status = "rejected")
  /\ []((last # NoCall /\ ~last.options.signal /\ LastCall.req # NoRequest
          /\ \A c \in 1..(Len(calls) - 1) :
               (~calls[c].signal /\ calls[c].key = LastCall.key) => calls[c].pc = "done")
        => /\ LastCall.pc = "own"
           /\ LastCall.req = Len(requests)
           /\ requests[LastCall.req].state = "pending"
           /\ \A c \in 1..(Len(calls) - 1) : calls[c].req # LastCall.req)

\* C26 witness: the issuer and a joiner of one request both failed with its
\* error, and the next signal-less call for the key issued a second request.
C26_Witness ==
  /\ Len(calls) = 3
  /\ Len(requests) = 2
  /\ \A c \in 1..3 : ~calls[c].signal
  /\ FailedRequest(1)
  /\ calls[1].req = 1 /\ calls[2].req = 1
  /\ calls[1].pc = "done" /\ calls[2].pc = "done"
  /\ calls[1].result = calls[2].result
  /\ calls[1].result.status = "rejected"
  /\ calls[3].req = 2 /\ calls[3].pc = "own"
  /\ inflightRequests[calls[3].key] = 2

\* C27: a call is served from the cache exactly when it has no force flag and
\* the entry of its key is younger than the call's own ttlMs (60000 when
\* absent); an entry exactly as old as the TTL is not served and ttlMs 0 is
\* never served; and an entry, once written, stays in the map whatever its
\* age.
C27_FreshnessByReaderTtl ==
  /\ [](last # NoCall =>
          LET entry == responseCache[LastCall.key]
          IN /\ (LastCall.pc = "done" /\ LastCall.req = NoRequest)
                  <=> (~last.options.force /\ entry # NoEntry /\ now - entry.timestamp < LastTtl)
             /\ LastCall.req = NoRequest => LastCall.result = Fulfilled(entry.data)
             /\ last.options.ttlMs = <<0>> => LastCall.req # NoRequest)
  /\ [][ \A k \in DOMAIN responseCache :
           responseCache[k] # NoEntry => responseCache'[k] # NoEntry ]_vars

\* C27 witness: an entry exactly as old as the reading call's ttlMs was not
\* served; the call issued a request and the entry is still in the map.
C27_Witness ==
  /\ last # NoCall /\ ~last.options.force
  /\ last.options.ttlMs = <<TickMs>>
  /\ responseCache[LastCall.key] # NoEntry
  /\ now - responseCache[LastCall.key].timestamp = TickMs
  /\ LastCall.pc = "own"
  /\ LastCall.req = Len(requests)

\* C28: every successful completion of a request writes the entry of its key
\* with its own payload and the time of completion, whatever other requests
\* for the key are outstanding or have completed; so the entry holds the
\* payload of the completion that came last.
C28_LastCompletionWins ==
  [][ \A r \in 1..Len(requests) :
        ( /\ requests[r].state = "pending"
          /\ requests'[r].state = "settled"
          /\ ~FailedResponse(requests'[r].response) )
        => responseCache'[requests[r].key] =
             [timestamp |-> now, data |-> requests'[r].response.data] ]_vars

\* C28 witness: of two requests for one key, the one issued first completed
\* last, after the other had stored a different payload, and the entry holds
\* the payload and completion time of the first.
C28_Witness ==
  /\ Len(requests) >= 2
  /\ requests[1].key = requests[2].key
  /\ requests[1].state = "settled" /\ requests[2].state = "settled"
  /\ ~FailedResponse(requests[1].response) /\ ~FailedResponse(requests[2].response)
  /\ requests[1].response.data # requests[2].response.data
  /\ responseCache[requests[1].key] = [timestamp |-> TickMs, data |-> requests[1].response.data]

\* The entries of an input in the order mergeJournalEntries concatenates them
Concatenation(input) ==
  [i \in DOMAIN input.swaps |-> buildSwapEntry(input.swaps[i], i)]
    \o [i \in DOMAIN input.lending |-> buildLendingEntry(input.lending[i], i)]
    \o [i \in DOMAIN input.liquidity |-> buildLiquidityEntry(input.liquidity[i], i)]

SourceRank(type) == CASE type = "swap" -> 1 [] type = "lending" -> 2 [] type = "liquidity" -> 3

\* C22: two entries of the output of mergeJournalEntries that have the same
\* timestamp stand in the order of the concatenation: swaps before lending
\* before liquidity, and entries of one source in their input order.
C22_TiesKeepConcatenationOrder ==
  (pin.f = "mergeJournalEntries" /\ pout.done) =>
     LET all == Concatenation(pin)
         out == pout.value
     IN \A i, j \in DOMAIN out :
          (i < j /\ out[i].timestamp = out[j].timestamp) =>
             /\ SourceRank(out[i].type) <= SourceRank(out[j].type)
             /\ \E a, b \in DOMAIN all : a < b /\ all[a] = out[i] /\ all[b] = out[j]
             /\ \A a, b \in DOMAIN all : (all[a] = out[i] /\ all[b] = out[j]) => a < b

\* C22 witness: two swaps, a lending event and a liquidity event share one
\* instant, later than the second lending event; they come out in the order
\* swap, swap, lending, liquidity.
C22_Witness ==
  /\ pin.f = "mergeJournalEntries"
  /\ pout.done
  /\ Len(pout.value) = 5
  /\ \A i \in 1..4 : pout.value[i].timestamp = "1970-01-01T00:00:02.000Z"
  /\ [i \in 1..5 |-> pout.value[i].id]
       = <<"swap-0", "swap-1", "lending-9", "liquidity-0", "lending-1">>

\* new Date(timestamp).getTime() of an item whose timestamp is a valid date
ValidTime(item) == item.timestamp \in ValidDateStrings

\* C23 (as claimed): the tape holds every swap, ordered newest-first (read
\* here for the items whose timestamp is a date); the item at index 0 has
\* speed tier Normal; every other item has tier Fast when the absolute
\* difference to the item before it is below 45 seconds, Slow when it is above
\* 300 seconds and Normal otherwise, whatever the amounts.
C23_TapeNewestFirstSpeedTiers ==
  (pin.f = "fetchSwapTape" /\ pout.done) =>
     LET tape == pout.value
     IN /\ Len(tape) = Len(pin.swaps)
        /\ \A i, j \in DOMAIN tape :
             (i < j /\ ValidTime(tape[i]) /\ ValidTime(tape[j])) =>
                getTime(tape[i].timestamp) >= getTime(tape[j].timestamp)
        /\ tape # <<>> => tape[1].speedTier = "Normal"
        /\ \A i \in DOMAIN tape :
             (i > 1 /\ ValidTime(tape[i - 1]) /\ ValidTime(tape[i])) =>
                LET ms == Abs(getTime(tape[i - 1].timestamp) - getTime(tape[i].timestamp))
                IN tape[i].speedTier = IF ms < 45000 THEN "Fast"
                                       ELSE IF ms > 300000 THEN "Slow"
                                       ELSE "Normal"

\* The pair fields of the records a primary query of the journal returned
PairsOf(p) == { CaughtValue(p)[k].pair : k \in DOMAIN CaughtValue(p) }

\* C21: one fetchWalletJournal invocation has at most 8 liquidity-event
\* queries, for pairwise different pools that occur in the results of its
\* primary queries; none exists while a primary query is outstanding; the
\* invocation makes at most 11 fetches.
C21_JournalFetchBudget ==
  fn = "journal" =>
    /\ Len(liquidity) <= 8
    /\ Len(liquidityPools) = Len(liquidity)
    /\ \A i, j \in DOMAIN liquidityPools : i # j => liquidityPools[i] # liquidityPools[j]
    /\ \A i \in DOMAIN liquidityPools :
         /\ liquidityPools[i] \notin {Undefined, ""}
         /\ \E q \in {"swaps", "lending", "positions"} : liquidityPools[i] \in PairsOf(subs[q])
    /\ (\E q \in {"swaps", "lending", "positions"} : subs[q].status \in {"pending", "unissued"}) =>
         liquidity = <<>>
    /\ Cardinality({ q \in SubNames : subs[q].status # "unissued" }) + Len(liquidity) <= 11

\* C21 witness: the primaries returned nine different pools; the journal
\* queried the first eight in insertion order (positions, then swaps), left out the
\* pool of the lending event, and finished after 11 fetches.
C21_Witness ==
  /\ fn = "journal"
  /\ fpc = "done"
  /\ liquidityPools = <<"p1", "p2", "p3", "p4", "p5", "p6", "p7", "poolA">>
  /\ "poolB" \in PairsOf(subs["lending"])
  /\ Len(liquidity) = 8
  /\ \A i \in 1..8 : liquidity[i].status = "fulfilled"
  /\ fresult.status = "fulfilled"

\* C29: fetchPoolPerformance has issued its four sub-requests when it first
\* waits, and settles only when all four have settled; while one of them is
\* outstanding nothing is reported, also when the price chart has failed.
C29_PerformanceWaitsForAll ==
  fn = "performance" =>
    /\ \A q \in {"chart", "volume", "fees", "stats"} : subs[q].status # "unissued"
    /\ fpc = "done" => \A q \in {"chart", "volume", "fees", "stats"} : Settled(subs[q])
    /\ (\E q \in {"chart", "volume", "fees", "stats"} : subs[q].status = "pending") =>
         (fpc = "waiting" /\ fresult = SubPending)

\* C29 witness: the price chart has failed and volume and fees have settled,
\* but stats is outstanding: the function has not settled.
C29_Witness ==
  /\ fn = "performance"
  /\ subs["chart"].status = "rejected"
  /\ subs["volume"].status = "fulfilled"
  /\ subs["fees"].status = "fulfilled"
  /\ subs["stats"].status = "pending"
  /\ fpc = "waiting"
  /\ fresult = SubPending

\* Load l settles in this step
SettlesNow(l) == loads[l].outcome = "pending" /\ loads'[l].outcome # "pending"

\* C24: a load whose effect has been cleaned up writes nothing into the
\* component state when it settles, in whatever order the loads settle; a
\* settling load that changes the state is the most recently started one; and
\* at most one load, the most recently started, has not been cleaned up.
C24_SupersededLoadWritesNothing ==
  /\ [][ \A l \in DOMAIN loads :
           SettlesNow(l) =>
              /\ ~loads[l].mounted => panelState' = panelState
              /\ panelState' # panelState => l = Len(loads) ]_vars
  /\ [](\A l \in DOMAIN loads : loads[l].mounted => (panelMounted /\ l = Len(loads)))
  /\ [](panelState.stats # 0 => loads[panelState.stats].outcome = "fulfilled")

\* C24 witness: the first load was superseded by a change of the pool
\* address; the second load delivered its stats first, the first load got its
\* payload afterwards, and the panel shows the stats of the second.
C24_Witness ==
  /\ panelMounted
  /\ Len(loads) = 2
  /\ loads[1].outcome = "fulfilled" /\ loads[1].order = 2 /\ ~loads[1].mounted
  /\ loads[2].outcome = "fulfilled" /\ loads[2].order = 1 /\ loads[2].mounted
  /\ lastLoad.trigger = "poolAddress"
  /\ panelState = [loading |-> FALSE, error |-> Undefined, stats |-> 2]

\* C30 (as claimed): while the panel is mounted and no load is in progress for
\* its current inputs - the last started load has settled or its effect was
\* cleaned up - loading is false.
C30_LoadingClearedWhenIdle ==
  (panelMounted /\ ~\E l \in DOMAIN loads : loads[l].mounted /\ loads[l].outcome = "pending")
    => ~panelState.loading

====
